---- MODULE Spec2Model ----
(***************************************************************************)
(* A model of platformed-llm: the SSE framer (src/src/sse_stream.rs), the  *)
(* provider stream normalizers and the response accumulator.               *)
(*                                                                         *)
(* Strings are sequences of bytes (integers 0..255), so that line          *)
(* terminators, UTF-8 code points and chunk boundaries are what they are   *)
(* in the program.                                                         *)
(***************************************************************************)
EXTENDS Integers, Sequences, FiniteSets, TLC

\* ------------------------------------------------------------------------
\* Bounds of the model
\* ------------------------------------------------------------------------
\* Lines (each with its terminator) in a generated byte stream.
MaxLines == 3
\* Characters of the string S of a `data: S LF LF` stream.
MaxStrLen == 2
\* Polls made after the upstream has reported its end.
MaxEofPolls == 2
\* SSE items one response consumes.
MaxFrames == 3
\* SSE items of one Anthropic tool call: its start, its fragments, its stop.
MaxToolFrames == 4
\* Events handed to one ResponseAccumulator.
MaxEvents == 4
\* Input items of one Prompt.
MaxItems == 4
\* SSE items each of two concurrent responses consumes.
MaxShared == 3

\* ------------------------------------------------------------------------
\* Bytes
\* ------------------------------------------------------------------------
LF == 10
CR == 13
SPACE == 32
COLON == 58

s_data == <<100, 97, 116, 97>>
s_event == <<101, 118, 101, 110, 116>>
s_id == <<105, 100>>
s_retry == <<114, 101, 116, 114, 121>>
s_message == <<109, 101, 115, 115, 97, 103, 101>>

Drop(s, n) == SubSeq(s, n + 1, Len(s))
Take(s, n) == SubSeq(s, 1, n)

IsPrefix(p, s) == Len(p) <= Len(s) /\ Take(s, Len(p)) = p
IsSuffix(p, s) == Len(p) <= Len(s) /\ Drop(s, Len(s) - Len(p)) = p

\* std::str::from_utf8: the well-formed byte sequences of Unicode table 3-7.
IsCont(b) == b >= 128 /\ b <= 191

RECURSIVE ValidUtf8(_)
ValidUtf8(s) ==
    IF s = <<>> THEN TRUE
    ELSE LET b == Head(s)
             n == Len(s)
         IN  IF b < 128 THEN ValidUtf8(Tail(s))
             ELSE IF b >= 194 /\ b <= 223
                  THEN n >= 2 /\ IsCont(s[2]) /\ ValidUtf8(Drop(s, 2))
             ELSE IF b >= 224 /\ b <= 239
                  THEN /\ n >= 3
                       /\ s[2] >= (IF b = 224 THEN 160 ELSE 128)
                       /\ s[2] <= (IF b = 237 THEN 159 ELSE 191)
                       /\ IsCont(s[3])
                       /\ ValidUtf8(Drop(s, 3))
             ELSE IF b >= 240 /\ b <= 244
                  THEN /\ n >= 4
                       /\ s[2] >= (IF b = 240 THEN 144 ELSE 128)
                       /\ s[2] <= (IF b = 244 THEN 143 ELSE 191)
                       /\ IsCont(s[3])
                       /\ IsCont(s[4])
                       /\ ValidUtf8(Drop(s, 4))
             ELSE FALSE

\* str::trim: the White_Space code points, as their UTF-8 encodings.
WhiteSpace ==
    {<<9>>, <<10>>, <<11>>, <<12>>, <<13>>, <<32>>, <<194, 133>>, <<194, 160>>,
     <<225, 154, 128>>, <<226, 128, 168>>, <<226, 128, 169>>, <<226, 128, 175>>,
     <<226, 129, 159>>, <<227, 128, 128>>}
        \cup {<<226, 128, b>> : b \in 128..138}

RECURSIVE trim_start(_)
trim_start(s) ==
    IF \E w \in WhiteSpace : IsPrefix(w, s)
    THEN trim_start(Drop(s, Len(CHOOSE w \in WhiteSpace : IsPrefix(w, s))))
    ELSE s

RECURSIVE trim_end(_)
trim_end(s) ==
    IF \E w \in WhiteSpace : IsSuffix(w, s)
    THEN trim_end(Take(s, Len(s) - Len(CHOOSE w \in WhiteSpace : IsSuffix(w, s))))
    ELSE s

trim(s) == trim_end(trim_start(s))

\* <u64 as FromStr>::from_str: an optional '+', then one or more ASCII
\* digits, value at most 2^64 - 1.  Some(n) is <<digits of n>> (without
\* leading zeros, so that equal numbers are equal values), None is <<>>.
IsDigit(b) == b >= 48 /\ b <= 57

RECURSIVE StripZeros(_)
StripZeros(ds) == IF Len(ds) > 1 /\ Head(ds) = 48 THEN StripZeros(Tail(ds)) ELSE ds

U64Max == <<49, 56, 52, 52, 54, 55, 52, 52, 48, 55, 51, 55, 48, 57, 53, 53, 49, 54, 49, 53>>

RECURSIVE LexLeq(_, _)
LexLeq(a, b) ==
    IF a = <<>> THEN TRUE
    ELSE IF Head(a) # Head(b) THEN Head(a) < Head(b)
    ELSE LexLeq(Tail(a), Tail(b))

parse_u64(s) ==
    LET ds == IF s # <<>> /\ Head(s) = 43 THEN Tail(s) ELSE s
        n == StripZeros(ds)
    IN  IF ds = <<>> \/ \E i \in 1..Len(ds) : ~IsDigit(ds[i]) THEN <<>>
        ELSE IF Len(n) > 20 \/ (Len(n) = 20 /\ ~LexLeq(n, U64Max)) THEN <<>>
        ELSE <<n>>

\* ------------------------------------------------------------------------
\* SseEvent and EventBuffer
\* ------------------------------------------------------------------------
SseEvent_default == [event_type |-> <<>>, data |-> <<>>, id |-> <<>>, retry |-> <<>>]

is_empty(e) == e.data = <<>> /\ e.event_type = <<>> /\ e.id = <<>> /\ e.retry = <<>>

\* dispatch_event that leaves the trailing LF on the data.
dispatch_event_keeps_newline(eb) ==
    IF eb.current_event.data = <<>> THEN eb
    ELSE [current_event |-> SseEvent_default,
          events |-> Append(eb.events,
                            [eb.current_event EXCEPT
                               !.event_type = IF @ = <<>> THEN s_message ELSE @])]

\* An EventBuffer value: eb.current_event, eb.events.  dispatch_event
\* returns early, leaving current_event as it is, when the data is empty.
dispatch_event(eb) ==
    IF eb.current_event.data = <<>> THEN eb
    ELSE LET d0 == eb.current_event.data
             d1 == IF d0[Len(d0)] = LF THEN Take(d0, Len(d0) - 1) ELSE d0
             t1 == IF eb.current_event.event_type = <<>> THEN s_message
                   ELSE eb.current_event.event_type
         IN  [current_event |-> SseEvent_default,
              events |-> Append(eb.events,
                                [eb.current_event EXCEPT !.data = d1, !.event_type = t1])]

\* str::split_once(':'): 0 when the line has no colon.
FirstColon(line) ==
    IF \E i \in 1..Len(line) : line[i] = COLON
    THEN CHOOSE i \in 1..Len(line) :
            line[i] = COLON /\ \A j \in 1..(i - 1) : line[j] # COLON
    ELSE 0

\* process_line after the line has been decoded: the EventBuffer it leaves.
process_fields(eb, line) ==
         LET eb1 == IF line = <<>> THEN dispatch_event(eb) ELSE eb
             c == FirstColon(line)
             field == IF c = 0 THEN line ELSE Take(line, c - 1)
             value0 == IF c = 0 THEN <<>> ELSE Drop(line, c)
             value == IF value0 # <<>> /\ Head(value0) = SPACE THEN Tail(value0)
                      ELSE value0
             ce == eb1.current_event
             ce1 == IF field = s_event THEN [ce EXCEPT !.event_type = value]
                    ELSE IF field = s_data
                         THEN [ce EXCEPT !.data = (@ \o value) \o <<LF>>]
                    ELSE IF field = s_id THEN [ce EXCEPT !.id = trim(value)]
                    ELSE IF field = s_retry /\ parse_u64(trim(value)) # <<>>
                         THEN [ce EXCEPT !.retry = parse_u64(trim(value))]
                    ELSE ce
         IN  [eb1 EXCEPT !.current_event = ce1]

\* process_line that decodes lossily instead of failing.
process_line_lossy(eb, line) == [err |-> FALSE, eb |-> process_fields(eb, line)]

\* process_line on an EventBuffer: [err, eb].  from_utf8 fails before the
\* EventBuffer is touched.
process_line(eb, line) ==
    IF ~ValidUtf8(line) THEN [err |-> TRUE, eb |-> eb]
    ELSE [err |-> FALSE, eb |-> process_fields(eb, line)]

\* memchr2(b'\n', b'\r', buffer): 1-based index of the first LF or CR, 0 if
\* there is none.
memchr2(buffer) ==
    IF \E i \in 1..Len(buffer) : buffer[i] \in {LF, CR}
    THEN CHOOSE i \in 1..Len(buffer) :
            buffer[i] \in {LF, CR} /\ \A j \in 1..(i - 1) : buffer[j] \notin {LF, CR}
    ELSE 0

\* ------------------------------------------------------------------------
\* SseStream::parse_buffer on a framer value
\*   st.line_buffer, st.last_seen_cr, st.eb (the EventBuffer),
\*   st.lines (history: the lines handed to process_line), st.err.
\* On a process_line error the `?` returns at once: the rest of the chunk is
\* dropped, and in the combining branch line_buffer keeps the extended line.
\* ------------------------------------------------------------------------
\* The bytes after the last terminator of a chunk replace the partial line
\* instead of extending it.
keep_remaining_overwrites(st, buffer) == [st EXCEPT !.line_buffer = buffer]

\* The bytes after the last terminator of a chunk are added to line_buffer.
keep_remaining(st, buffer) == [st EXCEPT !.line_buffer = @ \o buffer]

RECURSIVE parse_buffer(_, _)
parse_buffer(st, buffer) ==
    LET idx == memchr2(buffer) IN
    IF idx = 0 THEN keep_remaining(st, buffer)
    ELSE LET is_nl == buffer[idx] = LF
             seg == Take(buffer, idx - 1)
             rest == Drop(buffer, idx)
         IN  IF st.last_seen_cr /\ idx = 1 /\ is_nl
             THEN parse_buffer([st EXCEPT !.last_seen_cr = ~is_nl], rest)
             ELSE IF st.line_buffer = <<>>
             THEN LET r == process_line(st.eb, seg) IN
                  IF r.err THEN [st EXCEPT !.err = TRUE, !.lines = Append(@, seg)]
                  ELSE parse_buffer([st EXCEPT !.eb = r.eb,
                                               !.lines = Append(@, seg),
                                               !.last_seen_cr = ~is_nl], rest)
             ELSE LET lb == st.line_buffer \o seg
                      r == process_line(st.eb, lb)
                  IN  IF r.err THEN [st EXCEPT !.err = TRUE, !.line_buffer = lb,
                                               !.lines = Append(@, lb)]
                      ELSE parse_buffer([st EXCEPT !.eb = r.eb,
                                                   !.line_buffer = <<>>,
                                                   !.lines = Append(@, lb),
                                                   !.last_seen_cr = ~is_nl], rest)

\* ------------------------------------------------------------------------
\* Byte streams the upstream may carry
\* ------------------------------------------------------------------------
Euro == <<226, 130, 172>>

\* Lines without their terminator: a data line, the blank line, and a line
\* that is not valid UTF-8.
BadLine == <<255>>
LinePool == {s_data \o <<COLON, 97>>, <<>>, BadLine}

\* Up to k terminated lines: a data line or a blank line ended by LF or by
\* CR, or the invalid line ended by LF.
RECURSIVE TerminatedLines(_)
TerminatedLines(k) ==
    IF k = 0 THEN {<<>>}
    ELSE LET prev == TerminatedLines(k - 1)
         IN  prev \cup {(p \o l) \o <<t>> : p \in prev, l \in LinePool \ {BadLine},
                                              t \in {LF, CR}}
                  \cup {(p \o BadLine) \o <<LF>> : p \in prev}

\* Up to MaxLines lines, the last one possibly without a terminator.
GenericStreams ==
    TerminatedLines(MaxLines)
        \cup {p \o l : p \in TerminatedLines(MaxLines - 1), l \in LinePool}

\* `data: a` CRLF `data: b` LF LF `data: c` CR CR (scenario S5 of the
\* specification), and the same three lines with a lone CR after the first.
DataLine(v) == (s_data \o <<COLON, SPACE>>) \o v
S5Stream ==
    DataLine(<<97>>) \o <<CR, LF>> \o DataLine(<<98>>) \o <<LF, LF>> \o DataLine(<<99>>) \o <<CR, CR>>

\* UTF-8 strings S of at most MaxStrLen characters, and `data: S LF LF`.
Chars == {<<97>>, <<SPACE>>, <<COLON>>, Euro, <<LF>>, <<CR>>}
RECURSIVE Strings(_)
Strings(k) ==
    IF k = 0 THEN {<<>>}
    ELSE LET prev == Strings(k - 1) IN prev \cup {p \o c : p \in prev, c \in Chars}
DataStream(S) == DataLine(S) \o <<LF, LF>>
DataStreams == {DataStream(S) : S \in Strings(MaxStrLen)}

S5StreamCR ==
    DataLine(<<97>>) \o <<CR>> \o DataLine(<<98>>) \o <<LF, LF>> \o DataLine(<<99>>) \o <<CR, CR>>

\* The invalid line ended by CRLF, then an event.
BadLineCRLF == ((BadLine \o <<CR, LF>>) \o (s_data \o <<COLON, 97>>)) \o <<LF, LF>>

\* Blocks that set `event`, `id` or `retry`: alone in a block closed by a
\* blank line, alone before a block that holds data, and next to data.
FieldLine(field, v) == (field \o <<COLON, SPACE>>) \o v
FieldLines == {FieldLine(s_event, <<120>>), FieldLine(s_id, <<49>>), FieldLine(s_retry, <<53>>)}
FieldStreams ==
    {l \o <<LF, LF>> : l \in FieldLines}
        \cup {(l \o <<LF, LF>>) \o DataStream(<<97>>) : l \in FieldLines}
        \cup {(l \o <<LF>>) \o DataStream(<<97>>) : l \in FieldLines}

Streams ==
    GenericStreams \cup {S5Stream, S5StreamCR, BadLineCRLF} \cup DataStreams \cup FieldStreams

\* ------------------------------------------------------------------------
\* State
\* ------------------------------------------------------------------------
VARIABLES
    stream,        \* the bytes the upstream carries in this run (fixed)
    rest,          \* inner: the bytes the upstream has not delivered yet
    up_failed,     \* inner: the upstream has yielded an Err (and is finished)
    eof_polls,     \* inner: times the upstream has reported its end
    line_buffer,   \* SseStream.line_buffer
    last_seen_cr,  \* SseStream.last_seen_cr
    current_event, \* SseStream.events.current_event
    events,        \* SseStream.events.events
    lines,         \* history: the lines handed to process_line, in order
    split_cp,      \* history: a chunk has ended inside a multi-byte code point
    out            \* history: the items poll_next has returned

sse_vars == <<stream, rest, up_failed, eof_polls, line_buffer, last_seen_cr,
              current_event, events, lines, split_cp, out>>

\* One response of one provider: the frames its SSE stream yields, the
\* normalizer's state, the canonical stream and what Response::buffer returns.
VARIABLES
    provider,        \* "openai", "google" or "anthropic"
    nframes,         \* SSE items consumed so far
    closed,          \* the SSE stream has ended
    google_state,    \* GoogleStreamState of this response
    anthropic_state, \* StreamState of this response
    uuid,            \* Uuid::new_v4 values handed out so far
    canon,           \* history: the items of the canonical stream
    buffered,        \* the result of Response::buffer, once it has returned
    frames           \* history: the SSE items consumed, in order

norm_vars == <<provider, nframes, closed, google_state, anthropic_state, uuid, canon,
               buffered, frames>>

\* A ResponseAccumulator fed with events one at a time.
VARIABLES
    accumulator,     \* the ResponseAccumulator
    seen,            \* history: the events handed to process_event, in order
    completed        \* the CompleteResponse of finalize, once it was called

acc_vars == <<accumulator, seen, completed>>

\* A Prompt built item by item and encoded for a provider.
VARIABLES
    prompt,             \* Prompt.items
    appended,           \* history: the last with_response, [before, response, after]
    anthropic_request,  \* the result of Anthropic's convert_request, once called
    google_request      \* the result of Gemini's convert_request, once called

req_vars == <<prompt, appended, anthropic_request, google_request>>

\* Two responses of one provider, each with the state its generate call made.
VARIABLES
    responses           \* per response: normalizer state, canonical events, history

vars == <<sse_vars, norm_vars, acc_vars, req_vars, responses>>

\* Items of the output stream: Some(Ok(event)), Some(Err(..)), None.
OkItem(e) == [kind |-> "event", ev |-> e, msg |-> "", detail |-> <<>>]
ErrItem(m, e, d) == [kind |-> "error", ev |-> e, msg |-> m, detail |-> d]
EndItem == [kind |-> "end", ev |-> SseEvent_default, msg |-> "", detail |-> <<>>]

\* The bytes end with the first bytes of a multi-byte code point.
EndsInsideCodePoint(bytes) ==
    \E k \in 1..3 :
        /\ k <= Len(bytes)
        /\ LET lead == bytes[Len(bytes) - k + 1]
               need == IF lead >= 240 THEN 4 ELSE IF lead >= 224 THEN 3 ELSE 2
           IN  /\ lead >= 194 /\ lead <= 244
               /\ k < need
               /\ \A j \in (Len(bytes) - k + 2)..Len(bytes) : IsCont(bytes[j])

FramerValue ==
    [line_buffer |-> line_buffer, last_seen_cr |-> last_seen_cr,
     eb |-> [current_event |-> current_event, events |-> events],
     lines |-> lines, err |-> FALSE]

\* SseStream::new on an upstream that carries `bytes`.
SseNew(bytes) ==
    /\ stream = bytes
    /\ rest = stream
    /\ up_failed = FALSE
    /\ eof_polls = 0
    /\ line_buffer = <<>>
    /\ last_seen_cr = FALSE
    /\ current_event = SseEvent_default
    /\ events = <<>>
    /\ lines = <<>>
    /\ split_cp = FALSE
    /\ out = <<>>

SseInit == \E bytes \in Streams : SseNew(bytes)

\* poll_next, an iteration that finds a parsed event: it is returned.
PollYield ==
    /\ events # <<>>
    /\ out' = Append(out, OkItem(Head(events)))
    /\ events' = Tail(events)
    /\ UNCHANGED <<stream, rest, up_failed, eof_polls, line_buffer, last_seen_cr,
                   current_event, lines, split_cp>>
    /\ UNCHANGED <<norm_vars, acc_vars, req_vars, responses>>

\* poll_next, an iteration that finds no parsed event and gets a chunk (any
\* prefix of the undelivered bytes, the empty one included) from upstream.
\* parse_buffer's error is returned; otherwise the loop goes on.
PollChunk ==
    /\ events = <<>>
    /\ eof_polls = 0
    /\ ~up_failed
    /\ \E n \in 0..Len(rest) :
          LET st == parse_buffer(FramerValue, Take(rest, n)) IN
          /\ rest' = Drop(rest, n)
          /\ line_buffer' = st.line_buffer
          /\ last_seen_cr' = st.last_seen_cr
          /\ current_event' = st.eb.current_event
          /\ events' = st.eb.events
          /\ lines' = st.lines
          /\ split_cp' = (split_cp \/ EndsInsideCodePoint(st.line_buffer))
          /\ out' = IF st.err
                    THEN Append(out, ErrItem("Invalid UTF-8 in SSE event",
                                             SseEvent_default, <<>>))
                    ELSE out
    /\ UNCHANGED <<stream, up_failed, eof_polls>>
    /\ UNCHANGED <<norm_vars, acc_vars, req_vars, responses>>

\* poll_next, an iteration that finds no parsed event and gets an Err from
\* upstream: map_err and `?` return it.  The HTTP body is released on an
\* error: the upstream has nothing more to deliver after it.
PollUpstreamError ==
    /\ events = <<>>
    /\ eof_polls = 0
    /\ ~up_failed
    /\ up_failed' = TRUE
    /\ rest' = <<>>
    /\ out' = Append(out, ErrItem("Stream error", SseEvent_default, <<>>))
    /\ UNCHANGED <<stream, eof_polls, line_buffer, last_seen_cr,
                   current_event, events, lines, split_cp>>
    /\ UNCHANGED <<norm_vars, acc_vars, req_vars, responses>>

\* poll_next that ends the stream without looking at what is left over.
PollEnd_silent ==
    /\ events = <<>>
    /\ rest = <<>>
    /\ eof_polls < MaxEofPolls
    /\ eof_polls' = eof_polls + 1
    /\ out' = Append(out, EndItem)
    /\ UNCHANGED <<stream, rest, up_failed, line_buffer, last_seen_cr,
                   current_event, events, lines, split_cp>>
    /\ UNCHANGED <<norm_vars, acc_vars, req_vars, responses>>

\* poll_next, an iteration that finds no parsed event and the upstream ended.
PollEnd ==
    /\ events = <<>>
    /\ rest = <<>>
    /\ eof_polls < MaxEofPolls
    /\ eof_polls' = eof_polls + 1
    /\ out' = IF line_buffer # <<>>
              THEN Append(out, ErrItem("Incomplete line buffer at end of stream",
                                       SseEvent_default, line_buffer))
              ELSE IF ~is_empty(current_event)
              THEN Append(out, ErrItem("Incomplete event at end of stream",
                                       current_event, <<>>))
              ELSE Append(out, EndItem)
    /\ UNCHANGED <<stream, rest, up_failed, line_buffer, last_seen_cr,
                   current_event, events, lines, split_cp>>
    /\ UNCHANGED <<norm_vars, acc_vars, req_vars, responses>>


\* ========================================================================
\* Canonical stream events (src/src/types/streaming.rs) and the items of
\* the canonical stream, Result<StreamEvent, Error>.  Text is a sequence of
\* string tokens, "" being <<>>, so that push_str is concatenation.
\* ========================================================================
ContentDelta(d) == [kind |-> "ContentDelta", delta |-> d]
OutputItemAddedText == [kind |-> "OutputItemAdded", item |-> [type |-> "Text"]]
OutputItemAddedFunctionCall(n, i) ==
    [kind |-> "OutputItemAdded", item |-> [type |-> "FunctionCall", name |-> n, id |-> i]]
FunctionCallComplete(c) == [kind |-> "FunctionCallComplete", call |-> c]
Done(fr, u) == [kind |-> "Done", finish_reason |-> fr, usage |-> u]
ErrorEvent(m) == [kind |-> "Error", error |-> m]
ErrResult(m) == [kind |-> "Err", error |-> m]

\* types::Usage and its Default; Option<u32> is <<>> or <<n>>.
Usage(i, o, c) == [input_tokens |-> i, output_tokens |-> o, cached_tokens |-> c]
Usage_default == Usage(0, 0, <<>>)

\* types::FunctionCall.  Only the OpenAI normalizer fills `id`.
FunctionCall(i, c, n, a) == [id |-> i, call_id |-> c, name |-> n, arguments |-> a]

\* JSON values of tool arguments and serde_json::to_string on them (the
\* compact text, as tokens).
JsonNull == [t |-> "null", members |-> <<>>]
JsonObject(ms) == [t |-> "object", members |-> ms]
RECURSIVE MembersToString(_)
MembersToString(ms) ==
    IF ms = <<>> THEN <<>>
    ELSE (IF Len(ms) > 1 THEN <<ms[1][1], ":", ms[1][2], ",">> ELSE <<ms[1][1], ":", ms[1][2]>>)
            \o MembersToString(Tail(ms))
to_string(v) ==
    IF v.t = "null" THEN <<"null">> ELSE (<<"{">> \o MembersToString(v.members)) \o <<"}">>

ArgsParis == JsonObject(<<<<"\"location\"", "\"Paris\"">>>>)

\* Frames that are not a parsed payload: the SSE framer's Err item, a data
\* the adapter skips, and a data that fails to parse.
SseErrFrame == [t |-> "sse_err"]
SkipFrame == [t |-> "skip"]
BadJsonFrame == [t |-> "bad_json"]

\* ------------------------------------------------------------------------
\* OpenAI (src/src/providers/openai/client.rs)
\* ------------------------------------------------------------------------
\* ResponsesStreamEvent: type, delta, item, response; Option is <<>> or <<x>>.
OpenAIEvent(ty, delta, item, response) ==
    [t |-> "event", type |-> ty, delta |-> delta, item |-> item, response |-> response]
\* ResponseItem and ResponseOutput: id, type, name, arguments, call_id.
OpenAIItem(id, ty, name, args, call_id) ==
    [id |-> id, type |-> ty, name |-> name, arguments |-> args, call_id |-> call_id]
OpenAIResponse(output, usage) == [output |-> output, usage |-> usage]

ArgsParisText == to_string(ArgsParis)
OpenAIFunctionItem == OpenAIItem("fc_1", "function_call", <<"get_weather">>, <<ArgsParisText>>, <<"call_1">>)
OpenAIMessageItem == OpenAIItem("msg_1", "message", <<>>, <<>>, <<>>)

OpenAIFrames ==
    {SseErrFrame, SkipFrame, BadJsonFrame,
     OpenAIEvent("response.output_text.delta", <<<<"Hi">>>>, <<>>, <<>>),
     OpenAIEvent("response.output_text.delta", <<<<>>>>, <<>>, <<>>),
     OpenAIEvent("response.output_item.added", <<>>, <<OpenAIMessageItem>>, <<>>),
     OpenAIEvent("response.output_item.added", <<>>,
                 <<OpenAIItem("fc_1", "function_call", <<"get_weather">>, <<>>, <<"call_1">>)>>, <<>>),
     OpenAIEvent("response.output_item.added", <<>>,
                 <<OpenAIItem("fc_1", "function_call", <<>>, <<>>, <<>>)>>, <<>>),
     OpenAIEvent("response.function_call_arguments.delta", <<ArgsParisText>>, <<>>, <<>>),
     OpenAIEvent("response.output_item.done", <<>>, <<OpenAIFunctionItem>>, <<>>),
     OpenAIEvent("response.output_item.done", <<>>,
                 <<OpenAIItem("fc_1", "function_call", <<"get_weather">>, <<ArgsParisText>>, <<>>)>>, <<>>),
     OpenAIEvent("response.output_item.done", <<>>, <<OpenAIMessageItem>>, <<>>),
     OpenAIEvent("response.completed", <<>>, <<>>,
                 <<OpenAIResponse(<<OpenAIMessageItem>>, Usage(5, 3, <<>>))>>),
     OpenAIEvent("response.completed", <<>>, <<>>,
                 <<OpenAIResponse(<<OpenAIFunctionItem>>, Usage(5, 3, <<>>))>>),
     OpenAIEvent("response.completed", <<>>, <<>>, <<>>)}

\* The FunctionCallComplete of a function_call item that has a name and
\* arguments; <<>> otherwise.
OpenAIFunctionCallOf(item) ==
    IF item.type = "function_call" /\ item.name # <<>> /\ item.arguments # <<>>
    THEN <<FunctionCallComplete(
              FunctionCall(item.id,
                           IF item.call_id # <<>> THEN item.call_id[1] ELSE item.id,
                           item.name[1], item.arguments[1]))>>
    ELSE <<>>

RECURSIVE OpenAICompletedCalls(_)
OpenAICompletedCalls(output) ==
    IF output = <<>> THEN <<>>
    ELSE OpenAIFunctionCallOf(Head(output)) \o OpenAICompletedCalls(Tail(output))

convert_stream_event_static(event) ==
    IF event.type = "response.output_text.delta"
    THEN IF event.delta # <<>> /\ event.delta[1] # <<>>
         THEN <<ContentDelta(event.delta[1])>> ELSE <<>>
    ELSE IF event.type = "response.output_item.added"
    THEN IF event.item = <<>> THEN <<>>
         ELSE IF event.item[1].type = "function_call"
         THEN <<OutputItemAddedFunctionCall(
                   IF event.item[1].name # <<>> THEN event.item[1].name[1] ELSE "unknown",
                   event.item[1].id)>>
         ELSE <<OutputItemAddedText>>
    ELSE IF event.type = "response.output_item.done"
    THEN IF event.item = <<>> THEN <<>> ELSE OpenAIFunctionCallOf(event.item[1])
    ELSE IF event.type = "response.completed"
    THEN IF event.response = <<>> THEN <<>>
         ELSE LET calls == OpenAICompletedCalls(event.response[1].output) IN
              Append(calls, Done(IF calls # <<>> THEN "ToolCalls" ELSE "Stop",
                                 event.response[1].usage))
    ELSE <<>>

\* The adapter around it in generate: filter_map drops the [DONE] sentinel
\* and the data that does not parse; an Err of the framer is passed on.
openai_stream_item(frame) ==
    IF frame.t = "sse_err" THEN <<ErrResult("sse")>>
    ELSE IF frame.t \in {"skip", "bad_json"} THEN <<>>
    ELSE convert_stream_event_static(frame)

\* ------------------------------------------------------------------------
\* Gemini (src/src/providers/vertex/google.rs)
\* ------------------------------------------------------------------------
GoogleText(x) == [type |-> "text", text |-> x, name |-> "", args |-> JsonNull]
GoogleFunctionCall(n, a) == [type |-> "functionCall", text |-> <<>>, name |-> n, args |-> a]
GoogleFunctionResponse(n) == [type |-> "functionResponse", text |-> <<>>, name |-> n, args |-> JsonNull]
\* GoogleCandidate: content.parts, finish_reason (Option<String>).
GoogleCandidate(parts, fr) == [parts |-> parts, finish_reason |-> fr]
\* GoogleResponse: candidates, usage_metadata (Option of the two counts).
GoogleResponse(cands, um) == [t |-> "response", candidates |-> cands, usage_metadata |-> um]
\* A JSON object with usageMetadata and no `candidates` key.
GoogleJsonWithoutCandidates(um) == [t |-> "no_candidates", usage_metadata |-> um]

GoogleUsage == <<[prompt_token_count |-> <<10>>, candidates_token_count |-> <<4>>]>>
GoogleCall == GoogleFunctionCall("get_weather", ArgsParis)

GoogleFrames ==
    {SseErrFrame, SkipFrame, BadJsonFrame,
     GoogleResponse(<<GoogleCandidate(<<GoogleText(<<"Hi">>)>>, <<>>)>>, <<>>),
     GoogleResponse(<<GoogleCandidate(<<GoogleText(<<>>)>>, <<>>)>>, <<>>),
     GoogleResponse(<<GoogleCandidate(<<GoogleCall>>, <<>>)>>, <<>>),
     GoogleResponse(<<GoogleCandidate(<<GoogleCall, GoogleText(<<"Hi">>)>>, <<>>)>>, <<>>),
     GoogleResponse(<<GoogleCandidate(<<GoogleFunctionResponse("get_weather")>>, <<>>)>>, <<>>),
     GoogleResponse(<<GoogleCandidate(<<>>, <<"STOP">>)>>, GoogleUsage),
     GoogleResponse(<<GoogleCandidate(<<GoogleText(<<"Hi">>)>>, <<"STOP">>)>>, GoogleUsage),
     GoogleResponse(<<GoogleCandidate(<<>>, <<"MAX_TOKENS">>)>>, <<>>),
     GoogleResponse(<<GoogleCandidate(<<>>, <<"SAFETY">>)>>, <<>>),
     GoogleResponse(<<GoogleCandidate(<<>>, <<"RECITATION">>)>>, <<>>),
     GoogleResponse(<<>>, GoogleUsage),
     GoogleResponse(<<>>, <<>>),
     GoogleJsonWithoutCandidates(GoogleUsage)}

\* impl From<GoogleUsageMetadata> for Usage
GoogleUsageInto(meta) ==
    Usage(IF meta.prompt_token_count # <<>> THEN meta.prompt_token_count[1] ELSE 0,
          IF meta.candidates_token_count # <<>> THEN meta.candidates_token_count[1] ELSE 0,
          <<>>)

GoogleStreamState_default == [has_text_output |-> FALSE, announced_function_calls |-> {}]

\* A functionCall part is never announced.
announce_function_call_never(announced, name, fc_id) == <<>>

\* A functionCall part is announced unless its key was announced before.
announce_function_call(announced, name, fc_id) ==
    IF announced THEN <<>> ELSE <<OutputItemAddedFunctionCall(name, fc_id)>>

\* The loop over the parts of the first candidate.  acc is
\* [events, state, uuid]; Uuid::new_v4 is a value never handed out before.
RECURSIVE GoogleParts(_, _)
GoogleParts(parts, acc) ==
    IF parts = <<>> THEN acc
    ELSE LET part == Head(parts) IN
         IF part.type = "text"
         THEN GoogleParts(Tail(parts),
                [acc EXCEPT
                   !.events = (@ \o (IF acc.state.has_text_output THEN <<>>
                                     ELSE <<OutputItemAddedText>>))
                                \o (IF part.text # <<>> THEN <<ContentDelta(part.text)>>
                                    ELSE <<>>),
                   !.state.has_text_output = TRUE])
         ELSE IF part.type = "functionCall"
         THEN LET function_key == <<part.name, ":">> \o to_string(part.args)
                  fc_id == <<"fc_", acc.uuid>>
                  call_id == <<"call_", acc.uuid>>
                  announced == function_key \in acc.state.announced_function_calls
              IN  GoogleParts(Tail(parts),
                    [acc EXCEPT
                       !.events = (@ \o announce_function_call(announced, part.name, fc_id))
                                    \o <<FunctionCallComplete(
                                            FunctionCall(<<>>, call_id, part.name,
                                                         to_string(part.args)))>>,
                       !.state.announced_function_calls = @ \cup {function_key},
                       !.uuid = @ + 1])
         ELSE GoogleParts(Tail(parts), acc)

GoogleFinishReason(s) ==
    IF s = "STOP" THEN "Stop"
    ELSE IF s = "MAX_TOKENS" THEN "Length"
    ELSE IF s = "SAFETY" THEN "ContentFilter"
    ELSE "Stop"

\* convert_response_stateful: [events, state, uuid].
convert_response_stateful(response, state, uuid0) ==
    LET usage == IF response.usage_metadata # <<>>
                 THEN GoogleUsageInto(response.usage_metadata[1]) ELSE Usage_default
    IN  IF response.candidates # <<>>
        THEN LET candidate == response.candidates[1]
                 acc == GoogleParts(candidate.parts,
                                    [events |-> <<>>, state |-> state, uuid |-> uuid0])
             IN  IF candidate.finish_reason # <<>>
                 THEN [acc EXCEPT !.events =
                          Append(@, Done(GoogleFinishReason(candidate.finish_reason[1]), usage))]
                 ELSE acc
        ELSE [events |-> IF response.usage_metadata # <<>> THEN <<Done("Stop", usage)>>
                         ELSE <<>>,
              state |-> state, uuid |-> uuid0]

\* serde_json::from_str::<GoogleResponse> succeeds: the data is JSON of that
\* shape and has the `candidates` key, a field without a default.
GoogleResponse_from_str(frame) == frame.t = "response"

\* The adapter around it in generate.
google_stream_item(frame, state, uuid0) ==
    IF frame.t = "sse_err" THEN [events |-> <<ErrResult("sse")>>, state |-> state, uuid |-> uuid0]
    ELSE IF frame.t = "skip" THEN [events |-> <<>>, state |-> state, uuid |-> uuid0]
    ELSE IF ~GoogleResponse_from_str(frame)
    THEN [events |-> <<ErrResult("Failed to parse SSE event")>>, state |-> state, uuid |-> uuid0]
    ELSE convert_response_stateful(frame, state, uuid0)

\* ------------------------------------------------------------------------
\* Anthropic (src/src/providers/vertex/anthropic.rs)
\* ------------------------------------------------------------------------
\* AnthropicStreamEvent, by its tag; the fields a variant lacks are unused.
AnthropicEvent(ty, index, block, delta) ==
    [t |-> "event", type |-> ty, index |-> index, content_block |-> block, delta |-> delta]
AnthropicTextBlock(x) ==
    [type |-> "text", text |-> x, id |-> "", name |-> "", input |-> JsonNull]
AnthropicToolUse(id, name, input) ==
    [type |-> "tool_use", text |-> <<>>, id |-> id, name |-> name, input |-> input]
AnthropicToolResult ==
    [type |-> "tool_result", text |-> <<>>, id |-> "", name |-> "", input |-> JsonNull]
AnthropicTextDelta(x) == [type |-> "text_delta", text |-> x, partial_json |-> <<>>]
AnthropicInputJsonDelta(pj) == [type |-> "input_json_delta", text |-> <<>>, partial_json |-> pj]
\* AnthropicMessageDelta: stop_reason and usage, both Option.
AnthropicMessageDelta(sr, u) == [type |-> "message_delta", stop_reason |-> sr, usage |-> u]
NoBlock == AnthropicToolResult
NoDelta == AnthropicTextDelta(<<>>)

AnthropicIndices == {0, 1}
AnthropicFrames ==
    {SseErrFrame, SkipFrame, BadJsonFrame,
     AnthropicEvent("message_start", 0, NoBlock, NoDelta),
     AnthropicEvent("ping", 0, NoBlock, NoDelta),
     AnthropicEvent("content_block_start", 0, AnthropicTextBlock(<<>>), NoDelta),
     AnthropicEvent("content_block_start", 0, AnthropicTextBlock(<<"Hi">>), NoDelta),
     AnthropicEvent("content_block_start", 0, AnthropicToolResult, NoDelta),
     AnthropicEvent("content_block_delta", 0, NoBlock, AnthropicTextDelta(<<"Hi">>)),
     AnthropicEvent("content_block_delta", 0, NoBlock, AnthropicTextDelta(<<>>)),
     AnthropicEvent("message_delta", 0, NoBlock,
                    AnthropicMessageDelta(<<"tool_use">>, <<Usage(10, 4, <<>>)>>)),
     AnthropicEvent("message_delta", 0, NoBlock, AnthropicMessageDelta(<<"max_tokens">>, <<>>)),
     AnthropicEvent("message_stop", 0, NoBlock, NoDelta)}
      \cup {AnthropicEvent("content_block_start", i,
                           AnthropicToolUse("toolu_1", "get_weather", JsonObject(<<>>)), NoDelta) :
               i \in AnthropicIndices}
      \cup {AnthropicEvent("content_block_start", 1,
                           AnthropicToolUse("toolu_2", "get_time", ArgsParis), NoDelta)}
      \cup {AnthropicEvent("content_block_delta", 1, NoBlock, AnthropicInputJsonDelta(pj)) :
               pj \in {<<"{\"loc">>, <<"ation\":\"Paris\"}">>}}
      \cup {AnthropicEvent("content_block_stop", i, NoBlock, NoDelta) : i \in AnthropicIndices}

\* StreamState: in_progress_calls, a map from block index to
\* InProgressFunctionCall.
StreamState_default == [in_progress_calls |-> <<>>]
InProgressFunctionCall(id, name, buf, has_initial) ==
    [id |-> id, name |-> name, input_buffer |-> buf, has_initial_input |-> has_initial]
MapInsert(m, k, v) == [i \in DOMAIN m \cup {k} |-> IF i = k THEN v ELSE m[i]]
\* A removal that leaves the entry in the map.
MapRemove_keeps(m, k) == m
MapRemove(m, k) == [i \in DOMAIN m \ {k} |-> m[i]]

\* An input_json_delta replaces the buffer of a call in progress.
push_partial_json_replaces(in_progress, partial_json) == partial_json

\* An input_json_delta is appended to the buffer of a call in progress.
push_partial_json_appends(in_progress, partial_json) ==
    in_progress.input_buffer \o partial_json

\* An input_json_delta on a call in progress: the new input_buffer.
push_partial_json(in_progress, partial_json) ==
    IF in_progress.has_initial_input THEN partial_json
    ELSE in_progress.input_buffer \o partial_json

\* convert_stream_event_stateful: [events, state].
convert_stream_event_stateful(event, state) ==
    IF event.type = "content_block_start"
    THEN LET b == event.content_block IN
         IF b.type = "tool_use"
         THEN LET empty == b.input.t = "null" \/ (b.input.t = "object" /\ b.input.members = <<>>)
              IN  [events |-> <<OutputItemAddedFunctionCall(b.name, b.id)>>,
                   state |-> [state EXCEPT !.in_progress_calls =
                                 MapInsert(@, event.index,
                                    InProgressFunctionCall(b.id, b.name,
                                        IF empty THEN <<>> ELSE to_string(b.input), ~empty))]]
         ELSE IF b.type = "text"
         THEN [events |-> <<OutputItemAddedText>>
                            \o (IF b.text # <<>> THEN <<ContentDelta(b.text)>> ELSE <<>>),
               state |-> state]
         ELSE [events |-> <<>>, state |-> state]
    ELSE IF event.type = "content_block_delta"
    THEN IF event.delta.type = "text_delta"
         THEN [events |-> IF event.delta.text # <<>> THEN <<ContentDelta(event.delta.text)>>
                          ELSE <<>>,
               state |-> state]
         ELSE IF event.index \in DOMAIN state.in_progress_calls
         THEN [events |-> <<>>,
               state |-> [state EXCEPT !.in_progress_calls[event.index].input_buffer =
                             push_partial_json(state.in_progress_calls[event.index],
                                               event.delta.partial_json)]]
         ELSE [events |-> <<>>, state |-> state]
    ELSE IF event.type = "content_block_stop"
    THEN IF event.index \in DOMAIN state.in_progress_calls
         THEN LET ip == state.in_progress_calls[event.index] IN
              [events |-> <<FunctionCallComplete(
                               FunctionCall(<<>>, ip.id, ip.name, ip.input_buffer))>>,
               state |-> [state EXCEPT !.in_progress_calls = MapRemove(@, event.index)]]
         ELSE [events |-> <<>>, state |-> state]
    ELSE IF event.type = "message_stop"
    THEN [events |-> <<Done("Stop", Usage_default)>>, state |-> state]
    ELSE [events |-> <<>>, state |-> state]

\* The adapter around it in generate: empty data and data that neither
\* parses nor starts with '{' are skipped.
anthropic_stream_item(frame, state) ==
    IF frame.t = "sse_err" THEN [events |-> <<ErrResult("sse")>>, state |-> state]
    ELSE IF frame.t = "skip" THEN [events |-> <<>>, state |-> state]
    ELSE IF frame.t = "bad_json"
    THEN [events |-> <<ErrResult("Failed to parse SSE event")>>, state |-> state]
    ELSE convert_stream_event_stateful(frame, state)

\* ------------------------------------------------------------------------
\* ResponseAccumulator (src/src/accumulator.rs) and Response::buffer
\* (src/src/response.rs)
\* ------------------------------------------------------------------------
TextItem(c) == [type |-> "Text", content |-> c, call |-> FunctionCall(<<>>, <<>>, "", <<>>)]
FunctionCallItem(c) == [type |-> "FunctionCall", content |-> <<>>, call |-> c]

\* ResponseAccumulator::new; Option is <<>> or <<x>>.
ResponseAccumulator_new == [output_items |-> <<>>, finish_reason |-> <<>>, usage |-> <<>>]

push_function_call_at_front(output_items, call) ==
    <<FunctionCallItem(call)>> \o output_items
\* self.output_items.push(OutputItem::FunctionCall { call }).
push_function_call(output_items, call) ==
    Append(output_items, FunctionCallItem(call))

\* process_event that pushes a new Text item for every ContentDelta.
process_event_pushes_delta(acc, event) ==
    IF event.kind = "ContentDelta"
    THEN [acc EXCEPT !.output_items = Append(@, TextItem(event.delta))]
    ELSE IF event.kind = "OutputItemAdded"
    THEN IF event.item.type = "Text"
         THEN [acc EXCEPT !.output_items = Append(@, TextItem(<<>>))]
         ELSE acc
    ELSE IF event.kind = "FunctionCallComplete"
    THEN [acc EXCEPT !.output_items = push_function_call(@, event.call)]
    ELSE IF event.kind = "Done"
    THEN [acc EXCEPT !.finish_reason = <<event.finish_reason>>, !.usage = <<event.usage>>]
    ELSE acc

\* process_event that pushes a placeholder item for an announced call.
process_event_pushes_placeholder(acc, event) ==
    IF event.kind = "ContentDelta"
    THEN IF acc.output_items # <<>> /\ acc.output_items[Len(acc.output_items)].type = "Text"
         THEN [acc EXCEPT !.output_items[Len(acc.output_items)].content = @ \o event.delta]
         ELSE [acc EXCEPT !.output_items = Append(@, TextItem(event.delta))]
    ELSE IF event.kind = "OutputItemAdded"
    THEN IF event.item.type = "Text"
         THEN [acc EXCEPT !.output_items = Append(@, TextItem(<<>>))]
         ELSE [acc EXCEPT !.output_items =
                  Append(@, FunctionCallItem(FunctionCall(<<>>, "", event.item.name, <<>>)))]
    ELSE IF event.kind = "FunctionCallComplete"
    THEN [acc EXCEPT !.output_items = push_function_call(@, event.call)]
    ELSE IF event.kind = "Done"
    THEN [acc EXCEPT !.finish_reason = <<event.finish_reason>>, !.usage = <<event.usage>>]
    ELSE acc

process_event(acc, event) ==
    IF event.kind = "ContentDelta"
    THEN IF acc.output_items # <<>> /\ acc.output_items[Len(acc.output_items)].type = "Text"
         THEN [acc EXCEPT !.output_items[Len(acc.output_items)].content = @ \o event.delta]
         ELSE [acc EXCEPT !.output_items = Append(@, TextItem(event.delta))]
    ELSE IF event.kind = "OutputItemAdded"
    THEN IF event.item.type = "Text"
         THEN [acc EXCEPT !.output_items = Append(@, TextItem(<<>>))]
         ELSE acc
    ELSE IF event.kind = "FunctionCallComplete"
    THEN [acc EXCEPT !.output_items = push_function_call(@, event.call)]
    ELSE IF event.kind = "Done"
    THEN [acc EXCEPT !.finish_reason = <<event.finish_reason>>, !.usage = <<event.usage>>]
    ELSE acc

finalize_defaults(acc) ==
    [output |-> acc.output_items, finish_reason |-> "Stop", usage |-> Usage_default]
\* finalize: the CompleteResponse.
finalize(acc) ==
    [output |-> acc.output_items,
     finish_reason |-> IF acc.finish_reason # <<>> THEN acc.finish_reason[1] ELSE "Stop",
     usage |-> IF acc.usage # <<>> THEN acc.usage[1] ELSE Usage_default]

NoResponse == finalize(ResponseAccumulator_new)

\* buffer_stream over the items the stream yields until it ends:
\* [status, response], status "ok" or "err".
return_streaming_error_finalizes(acc) == [status |-> "ok", response |-> finalize(acc)]
\* return Err(Error::streaming(error.clone())): the accumulator is dropped.
return_streaming_error(acc) == [status |-> "err", response |-> NoResponse]

\* buffer_stream that does not break at Done: it reads the stream to its end.
RECURSIVE buffer_loop_reads_on(_, _)
buffer_loop_reads_on(items, acc) ==
    IF items = <<>> THEN [status |-> "ok", response |-> finalize(acc)]
    ELSE LET event == Head(items) IN
         IF event.kind = "Err" THEN [status |-> "err", response |-> NoResponse]
         ELSE IF event.kind = "Error" THEN return_streaming_error(acc)
         ELSE buffer_loop_reads_on(Tail(items), process_event(acc, event))

RECURSIVE buffer_loop(_, _)
buffer_loop(items, acc) ==
    IF items = <<>> THEN [status |-> "ok", response |-> finalize(acc)]
    ELSE LET event == Head(items) IN
         IF event.kind = "Err" THEN [status |-> "err", response |-> NoResponse]
         ELSE IF event.kind = "Done"
         THEN [status |-> "ok", response |-> finalize(process_event(acc, event))]
         ELSE IF event.kind = "Error" THEN return_streaming_error(acc)
         ELSE buffer_loop(Tail(items), process_event(acc, event))

buffer_stream(items) == buffer_loop(items, ResponseAccumulator_new)

\* CompleteResponse::content: the Text contents joined.
RECURSIVE content(_)
content(output) ==
    IF output = <<>> THEN <<>>
    ELSE (IF Head(output).type = "Text" THEN Head(output).content ELSE <<>>)
            \o content(Tail(output))

\* Response::text: buffer()? and then the content; [status, text].
text(items) ==
    LET complete == buffer_stream(items) IN
    IF complete.status = "err" THEN [status |-> "err", text |-> <<>>]
    ELSE [status |-> "ok", text |-> content(complete.response.output)]

\* ------------------------------------------------------------------------
\* One response: the adapter of generate driven by the SSE stream
\* ------------------------------------------------------------------------
Providers == {"openai", "google", "anthropic"}

\* generate: the normalizer state is created with the stream.
NormNew(p) ==
    /\ provider = p
    /\ nframes = 0
    /\ closed = FALSE
    /\ google_state = GoogleStreamState_default
    /\ anthropic_state = StreamState_default
    /\ uuid = 0
    /\ canon = <<>>
    /\ buffered = [status |-> "none", response |-> NoResponse]
    /\ frames = <<>>

NormInit == \E p \in Providers : NormNew(p)

OpenAIFrame ==
    /\ provider = "openai"
    /\ ~closed
    /\ nframes < MaxFrames
    /\ \E frame \in OpenAIFrames :
          /\ canon' = canon \o openai_stream_item(frame)
          /\ frames' = Append(frames, frame)
    /\ nframes' = nframes + 1
    /\ UNCHANGED <<provider, closed, google_state, anthropic_state, uuid, buffered>>
    /\ UNCHANGED <<sse_vars, acc_vars, req_vars, responses>>

GoogleFrame ==
    /\ provider = "google"
    /\ ~closed
    /\ nframes < MaxFrames
    /\ \E frame \in GoogleFrames :
          LET r == google_stream_item(frame, google_state, uuid) IN
          /\ canon' = canon \o r.events
          /\ google_state' = r.state
          /\ uuid' = r.uuid
          /\ frames' = Append(frames, frame)
    /\ nframes' = nframes + 1
    /\ UNCHANGED <<provider, closed, anthropic_state, buffered>>
    /\ UNCHANGED <<sse_vars, acc_vars, req_vars, responses>>

AnthropicFrame ==
    /\ provider = "anthropic"
    /\ ~closed
    /\ nframes < MaxFrames
    /\ \E frame \in AnthropicFrames :
          LET r == anthropic_stream_item(frame, anthropic_state) IN
          /\ canon' = canon \o r.events
          /\ anthropic_state' = r.state
          /\ frames' = Append(frames, frame)
    /\ nframes' = nframes + 1
    /\ UNCHANGED <<provider, closed, google_state, uuid, buffered>>
    /\ UNCHANGED <<sse_vars, acc_vars, req_vars, responses>>

\* The SSE stream ends: so does the canonical stream, with nothing added.
EndOfStream ==
    /\ ~closed
    /\ closed' = TRUE
    /\ UNCHANGED <<provider, nframes, google_state, anthropic_state, uuid, canon, buffered,
                   frames>>
    /\ UNCHANGED <<sse_vars, acc_vars, req_vars, responses>>

\* Response::buffer on the whole canonical stream (it reads it up to the
\* first Done or error).
Buffer ==
    /\ closed
    /\ buffered.status = "none"
    /\ buffered' = buffer_stream(canon)
    /\ UNCHANGED <<provider, nframes, closed, google_state, anthropic_state, uuid, canon,
                   frames>>
    /\ UNCHANGED <<sse_vars, acc_vars, req_vars, responses>>

\* ------------------------------------------------------------------------
\* One Anthropic tool call: a tool_use block, the fragments of its
\* arguments and its stop, as the frames of one response
\* ------------------------------------------------------------------------
\* The text of the arguments and the fragments it can be cut into (every
\* run of consecutive pieces, and the empty fragment).
ToolArgsText == <<"{\"location\"", ":\"Paris\"", "}">>
Slice(q, a, b) == [i \in 1..(b - a + 1) |-> q[a + i - 1]]
Fragments == {Slice(ToolArgsText, a, b) : a \in 1..Len(ToolArgsText), b \in 0..Len(ToolArgsText)}

ToolFrames ==
    {AnthropicEvent("content_block_start", 0,
                    AnthropicToolUse("toolu_1", "get_weather", input), NoDelta) :
        input \in {JsonNull, JsonObject(<<>>), ArgsParis}}
      \cup {AnthropicEvent("content_block_delta", 0, NoBlock, AnthropicInputJsonDelta(pj)) :
               pj \in Fragments}
      \cup {AnthropicEvent("content_block_delta", 1, NoBlock, AnthropicInputJsonDelta(<<"}">>)),
            AnthropicEvent("content_block_stop", 0, NoBlock, NoDelta)}

AnthropicToolFrame ==
    /\ provider = "anthropic"
    /\ ~closed
    /\ nframes < MaxToolFrames
    /\ \E frame \in ToolFrames :
          LET r == anthropic_stream_item(frame, anthropic_state) IN
          /\ canon' = canon \o r.events
          /\ anthropic_state' = r.state
          /\ frames' = Append(frames, frame)
    /\ nframes' = nframes + 1
    /\ UNCHANGED <<provider, closed, google_state, uuid, buffered>>
    /\ UNCHANGED <<sse_vars, acc_vars, req_vars, responses>>

\* ------------------------------------------------------------------------
\* A ResponseAccumulator driven event by event
\* ------------------------------------------------------------------------
\* ResponseAccumulator::new.
AccNew ==
    /\ accumulator = ResponseAccumulator_new
    /\ seen = <<>>
    /\ completed = <<>>

CallA == FunctionCall(<<>>, "call_1", "get_weather", <<"{}">>)
CallB == FunctionCall(<<>>, "call_2", "get_time", <<"{}">>)

\* The events a caller hands to process_event.
AccEvents ==
    {ContentDelta(<<"He">>), ContentDelta(<<"llo">>),
     OutputItemAddedText, OutputItemAddedFunctionCall("get_weather", "fc_1"),
     FunctionCallComplete(CallA), FunctionCallComplete(CallB),
     Done("Stop", Usage_default), Done("ToolCalls", Usage(10, 4, <<>>)),
     ErrorEvent("boom")}

\* The items a stream handed to Response::from_stream can yield.
StreamItems == AccEvents \cup {ErrResult("sse")}

\* The stream of a Response yields one more item.
StreamItem ==
    /\ ~closed
    /\ Len(canon) < MaxEvents
    /\ \E item \in StreamItems : canon' = Append(canon, item)
    /\ UNCHANGED <<provider, nframes, closed, google_state, anthropic_state, uuid, buffered,
                   frames>>
    /\ UNCHANGED <<sse_vars, acc_vars, req_vars, responses>>

\* process_event(&mut self, event); always Ok(()).
ProcessEvent ==
    /\ completed = <<>>
    /\ Len(seen) < MaxEvents
    /\ \E event \in AccEvents :
          /\ accumulator' = process_event(accumulator, event)
          /\ seen' = Append(seen, event)
    /\ UNCHANGED completed
    /\ UNCHANGED <<sse_vars, norm_vars, req_vars, responses>>

\* finalize(self): consumes the accumulator.
Finalize ==
    /\ completed = <<>>
    /\ completed' = <<finalize(accumulator)>>
    /\ UNCHANGED <<accumulator, seen>>
    /\ UNCHANGED <<sse_vars, norm_vars, req_vars, responses>>

\* ------------------------------------------------------------------------
\* Prompt (src/src/types/prompt.rs), CompleteResponse::to_items
\* (src/src/response.rs) and the request encodings of the Vertex providers
\* ------------------------------------------------------------------------
NoCall == FunctionCall(<<>>, "", "", <<>>)

\* InputItem: Message(Message{role, content}), FunctionCall(call),
\* FunctionCallOutput{call_id, output}.
Message(role, text_content) ==
    [type |-> "Message", role |-> role, content |-> text_content, call |-> NoCall,
     call_id |-> "", output |-> <<>>]
InputFunctionCall(call) ==
    [type |-> "FunctionCall", role |-> "", content |-> <<>>, call |-> call,
     call_id |-> "", output |-> <<>>]
FunctionCallOutput(call_id, output) ==
    [type |-> "FunctionCallOutput", role |-> "", content |-> <<>>, call |-> NoCall,
     call_id |-> call_id, output |-> output]

to_input_item_as_message(item) == Message("assistant", item.content)
\* OutputItem::to_input_item.
to_input_item(item) ==
    IF item.type = "Text" THEN Message("assistant", item.content)
    ELSE InputFunctionCall(item.call)

\* CompleteResponse::to_items.
to_items(complete) == [i \in 1..Len(complete.output) |-> to_input_item(complete.output[i])]

with_response_replaces(items, complete) == to_items(complete)
\* Prompt::with_response: self.items.extend(response.to_items()).
with_response(items, complete) == items \o to_items(complete)

\* serde_json::from_str::<Value> on the arguments text: [ok, value]. The
\* texts that are JSON documents, among the texts the model builds, are
\* null, {} and {"location":"Paris"}.
RECURSIVE Flatten(_)
Flatten(tokens) == IF tokens = <<>> THEN "" ELSE Head(tokens) \o Flatten(Tail(tokens))

from_str(arguments) ==
    LET json == Flatten(arguments) IN
    IF json = "null" THEN [ok |-> TRUE, value |-> JsonNull]
    ELSE IF json = "{}" THEN [ok |-> TRUE, value |-> JsonObject(<<>>)]
    ELSE IF json = Flatten(to_string(ArgsParis)) THEN [ok |-> TRUE, value |-> ArgsParis]
    ELSE [ok |-> FALSE, value |-> JsonNull]

\* AnthropicContentBlock in a request.
TextBlock(x) ==
    [type |-> "text", text |-> x, id |-> "", name |-> "", input |-> JsonNull,
     tool_use_id |-> "", content |-> <<>>]
ToolUseBlock(id, name, input) ==
    [type |-> "tool_use", text |-> <<>>, id |-> id, name |-> name, input |-> input,
     tool_use_id |-> "", content |-> <<>>]
ToolResultBlock(tool_use_id, result) ==
    [type |-> "tool_result", text |-> <<>>, id |-> "", name |-> "", input |-> JsonNull,
     tool_use_id |-> tool_use_id, content |-> result]

\* AnthropicContent::Text / ::Blocks and AnthropicMessage.
AnthropicContentText(x) == [kind |-> "Text", text |-> x, blocks |-> <<>>]
AnthropicContentBlocks(bs) == [kind |-> "Blocks", text |-> <<>>, blocks |-> bs]
AnthropicMessage(role, c) == [role |-> role, content |-> c]

\* The FunctionCall arm once the arguments parsed.
push_tool_use(messages, block) ==
    IF messages # <<>> /\ messages[Len(messages)].role = "assistant"
    THEN IF messages[Len(messages)].content.kind = "Text"
         THEN [messages EXCEPT ![Len(messages)].content =
                  AnthropicContentBlocks(<<TextBlock(@.text), block>>)]
         ELSE [messages EXCEPT ![Len(messages)].content =
                  AnthropicContentBlocks(Append(@.blocks, block))]
    ELSE Append(messages, AnthropicMessage("assistant", AnthropicContentBlocks(<<block>>)))

should_append_never(messages) == FALSE
\* should_append of the FunctionCallOutput arm.
should_append(messages) ==
    /\ messages # <<>>
    /\ messages[Len(messages)].role = "user"
    /\ messages[Len(messages)].content.kind = "Blocks"
    /\ \E i \in 1..Len(messages[Len(messages)].content.blocks) :
          messages[Len(messages)].content.blocks[i].type = "tool_result"

push_tool_result(messages, block) ==
    IF should_append(messages)
    THEN [messages EXCEPT ![Len(messages)].content =
             AnthropicContentBlocks(Append(@.blocks, block))]
    ELSE Append(messages, AnthropicMessage("user", AnthropicContentBlocks(<<block>>)))

\* AnthropicViaVertexProvider::convert_request over the items left to
\* encode: [status, messages, system]; an Err drops what was built.
RECURSIVE anthropic_convert_loop(_, _, _)
anthropic_convert_loop(items, messages, system_message) ==
    IF items = <<>>
    THEN [status |-> "ok", messages |-> messages, system |-> system_message]
    ELSE LET item == Head(items) IN
         IF item.type = "Message"
         THEN IF item.role = "system"
              THEN anthropic_convert_loop(Tail(items), messages, <<item.content>>)
              ELSE anthropic_convert_loop(Tail(items),
                       Append(messages,
                              AnthropicMessage(item.role, AnthropicContentText(item.content))),
                       system_message)
         ELSE IF item.type = "FunctionCall"
         THEN LET input == from_str(item.call.arguments) IN
              IF ~input.ok THEN [status |-> "err", messages |-> <<>>, system |-> <<>>]
              ELSE anthropic_convert_loop(Tail(items),
                       push_tool_use(messages,
                           ToolUseBlock(item.call.call_id, item.call.name, input.value)),
                       system_message)
         ELSE anthropic_convert_loop(Tail(items),
                  push_tool_result(messages, ToolResultBlock(item.call_id, item.output)),
                  system_message)

anthropic_convert_request(items) == anthropic_convert_loop(items, <<>>, <<>>)

\* GooglePart in a request and GoogleContent.
TextPart(x) == [type |-> "text", text |-> x, name |-> "", args |-> JsonNull, response |-> <<>>]
FunctionCallPart(name, args) ==
    [type |-> "functionCall", text |-> <<>>, name |-> name, args |-> args, response |-> <<>>]
FunctionResponsePart(name, output) ==
    [type |-> "functionResponse", text |-> <<>>, name |-> name, args |-> JsonNull,
     response |-> output]
GoogleContent(role, parts) == [role |-> role, parts |-> parts]

\* All the parts of the contents of one role, in order.
RECURSIVE PartsOfRole(_, _)
PartsOfRole(contents, role) ==
    IF contents = <<>> THEN <<>>
    ELSE (IF Head(contents).role = role THEN Head(contents).parts ELSE <<>>)
            \o PartsOfRole(Tail(contents), role)

IsFunctionResponsePart(p) == p.type = "functionResponse"
IsFunctionCallPart(p) == p.type = "functionCall"

\* GoogleProvider::find_function_name_by_call_id: the call whose rank among
\* the model's calls is the number of responses encoded so far; Option.
find_function_name_by_call_id(contents, call_id) ==
    LET response_count == Len(SelectSeq(PartsOfRole(contents, "user"), IsFunctionResponsePart))
        calls == SelectSeq(PartsOfRole(contents, "model"), IsFunctionCallPart)
    IN  IF response_count < Len(calls) THEN <<calls[response_count + 1].name>> ELSE <<>>

google_should_append(contents) ==
    /\ contents # <<>>
    /\ contents[Len(contents)].role = "user"
    /\ \E i \in 1..Len(contents[Len(contents)].parts) :
          contents[Len(contents)].parts[i].type = "functionResponse"

\* GoogleProvider::convert_request: [status, contents, system].
RECURSIVE google_convert_loop(_, _, _)
google_convert_loop(items, contents, system_instruction) ==
    IF items = <<>>
    THEN [status |-> "ok", contents |-> contents, system |-> system_instruction]
    ELSE LET item == Head(items) IN
         IF item.type = "Message"
         THEN IF item.role = "system"
              THEN google_convert_loop(Tail(items), contents,
                       <<GoogleContent("user", <<TextPart(item.content)>>)>>)
              ELSE google_convert_loop(Tail(items),
                       Append(contents,
                              GoogleContent(IF item.role = "user" THEN "user" ELSE "model",
                                            <<TextPart(item.content)>>)),
                       system_instruction)
         ELSE IF item.type = "FunctionCall"
         THEN LET args == from_str(item.call.arguments) IN
              IF ~args.ok THEN [status |-> "err", contents |-> <<>>, system |-> <<>>]
              ELSE IF contents # <<>> /\ contents[Len(contents)].role = "model"
              THEN google_convert_loop(Tail(items),
                       [contents EXCEPT ![Len(contents)].parts =
                           Append(@, FunctionCallPart(item.call.name, args.value))],
                       system_instruction)
              ELSE google_convert_loop(Tail(items),
                       Append(contents,
                              GoogleContent("model",
                                            <<FunctionCallPart(item.call.name, args.value)>>)),
                       system_instruction)
         ELSE LET found == find_function_name_by_call_id(contents, item.call_id)
                  function_name == IF found # <<>> THEN found[1] ELSE "unknown"
                  part == FunctionResponsePart(function_name, item.output)
              IN  IF google_should_append(contents)
                  THEN google_convert_loop(Tail(items),
                           [contents EXCEPT ![Len(contents)].parts = Append(@, part)],
                           system_instruction)
                  ELSE google_convert_loop(Tail(items),
                           Append(contents, GoogleContent("user", <<part>>)),
                           system_instruction)

google_convert_request(items) == google_convert_loop(items, <<>>, <<>>)

\* ------------------------------------------------------------------------
\* One Prompt built by its caller and encoded for one provider
\* ------------------------------------------------------------------------
\* Prompt::new.
PromptNew ==
    /\ prompt = <<>>
    /\ appended = <<>>
    /\ anthropic_request = <<>>
    /\ google_request = <<>>

\* The canonical events of an Anthropic response, frame by frame.
RECURSIVE anthropic_events(_, _)
anthropic_events(fs, state) ==
    IF fs = <<>> THEN <<>>
    ELSE LET r == anthropic_stream_item(Head(fs), state) IN
         r.events \o anthropic_events(Tail(fs), r.state)

ToolStart(index, input) ==
    AnthropicEvent("content_block_start", index,
                   AnthropicToolUse("toolu_1", "get_weather", input), NoDelta)
ToolStop(index) == AnthropicEvent("content_block_stop", index, NoBlock, NoDelta)
MessageStop == AnthropicEvent("message_stop", 0, NoBlock, NoDelta)

\* The response of a tool call whose arguments arrive in three fragments,
\* of one without arguments, and of text followed by a tool call.
IncrementalFrames ==
    <<ToolStart(0, JsonObject(<<>>))>>
        \o [i \in 1..Len(ToolArgsText) |->
               AnthropicEvent("content_block_delta", 0, NoBlock,
                              AnthropicInputJsonDelta(<<ToolArgsText[i]>>))]
        \o <<ToolStop(0), MessageStop>>
NoArgumentFrames == <<ToolStart(0, JsonObject(<<>>)), ToolStop(0), MessageStop>>
TextAndCallFrames ==
    <<AnthropicEvent("content_block_start", 0, AnthropicTextBlock(<<"Hi">>), NoDelta),
      ToolStop(0), ToolStart(1, ArgsParis), ToolStop(1), MessageStop>>

\* Response::buffer on each of them.
BufferedResponses ==
    {buffer_stream(anthropic_events(fs, StreamState_default)).response :
        fs \in {IncrementalFrames, NoArgumentFrames, TextAndCallFrames}}

CallWeather == FunctionCall(<<>>, "toolu_1", "get_weather", to_string(ArgsParis))
CallTime == FunctionCall(<<>>, "toolu_2", "get_time", <<"{}">>)

\* The items a caller adds: with_user, with_assistant, with_item.
InputItems ==
    {Message("system", <<"sys">>), Message("user", <<"q">>), Message("assistant", <<"Hi">>),
     InputFunctionCall(CallWeather), InputFunctionCall(CallTime),
     FunctionCallOutput("toolu_1", <<"sunny 22C">>),
     FunctionCallOutput("toolu_2", <<"noon">>)}

NotEncoded == anthropic_request = <<>> /\ google_request = <<>>

\* Prompt::with_item (with_user and with_assistant push the same items).
WithItem ==
    /\ NotEncoded
    /\ Len(prompt) < MaxItems
    /\ \E item \in InputItems : prompt' = Append(prompt, item)
    /\ UNCHANGED <<appended, anthropic_request, google_request>>
    /\ UNCHANGED <<sse_vars, norm_vars, acc_vars, responses>>

\* Prompt::with_response.
WithResponse ==
    /\ NotEncoded
    /\ Len(prompt) < MaxItems
    /\ \E complete \in BufferedResponses :
          /\ prompt' = with_response(prompt, complete)
          /\ appended' = <<[before |-> prompt, response |-> complete,
                            after |-> with_response(prompt, complete)]>>
    /\ UNCHANGED <<anthropic_request, google_request>>
    /\ UNCHANGED <<sse_vars, norm_vars, acc_vars, responses>>

\* AnthropicViaVertexProvider::convert_request on the prompt's items.
AnthropicConvertRequest ==
    /\ anthropic_request = <<>>
    /\ anthropic_request' = <<anthropic_convert_request(prompt)>>
    /\ UNCHANGED <<prompt, appended, google_request>>
    /\ UNCHANGED <<sse_vars, norm_vars, acc_vars, responses>>

\* GoogleProvider::convert_request on the prompt's items.
GoogleConvertRequest ==
    /\ google_request = <<>>
    /\ google_request' = <<google_convert_request(prompt)>>
    /\ UNCHANGED <<prompt, appended, anthropic_request>>
    /\ UNCHANGED <<sse_vars, norm_vars, acc_vars, responses>>

\* ------------------------------------------------------------------------
\* Two responses of one provider consumed in any interleaving
\* ------------------------------------------------------------------------
\* What one generate call creates: the state its closure owns, and nothing
\* consumed yet. uuid is the number of UUIDs this response has drawn: a fresh
\* UUID is named by its rank within its response.
ResponseNew ==
    [google_state |-> GoogleStreamState_default, anthropic_state |-> StreamState_default,
     uuid |-> 0, canon |-> <<>>, frames |-> <<>>, dropped |-> FALSE]

ResponsesNew == responses = [i \in 1..2 |-> ResponseNew]

\* The canonical events of a Gemini response, frame by frame.
RECURSIVE google_events(_, _, _)
google_events(fs, state, uuid0) ==
    IF fs = <<>> THEN <<>>
    ELSE LET r == google_stream_item(Head(fs), state, uuid0) IN
         r.events \o google_events(Tail(fs), r.state, r.uuid)

SharedFrames(p) ==
    IF p = "google"
    THEN {GoogleResponse(<<GoogleCandidate(<<GoogleText(<<"Hi">>)>>, <<>>)>>, <<>>),
          GoogleResponse(<<GoogleCandidate(<<GoogleCall>>, <<>>)>>, <<>>),
          GoogleResponse(<<GoogleCandidate(<<GoogleText(<<"Hi">>)>>, <<"STOP">>)>>, GoogleUsage)}
    ELSE {ToolStart(0, JsonObject(<<>>)), ToolStop(0),
          AnthropicEvent("content_block_delta", 0, NoBlock,
                         AnthropicInputJsonDelta(<<ToolArgsText[1]>>)),
          AnthropicEvent("content_block_delta", 0, NoBlock,
                         AnthropicInputJsonDelta(<<ToolArgsText[3]>>))}

closure_state_of_first(rs, i) == rs[1]
\* The state the closure of response i captured by move: its own.
closure_state(rs, i) == rs[i]

\* Response i consumes its next SSE item.
ConsumeFrame ==
    /\ \E i \in 1..2 :
          /\ ~responses[i].dropped
          /\ Len(responses[i].frames) < MaxShared
          /\ \E frame \in SharedFrames(provider) :
                LET own == closure_state(responses, i) IN
                IF provider = "google"
                THEN LET r == google_stream_item(frame, own.google_state, own.uuid) IN
                     responses' = [responses EXCEPT
                                      ![i].google_state = r.state,
                                      ![i].uuid = r.uuid,
                                      ![i].canon = @ \o r.events,
                                      ![i].frames = Append(@, frame)]
                ELSE LET r == anthropic_stream_item(frame, own.anthropic_state) IN
                     responses' = [responses EXCEPT
                                      ![i].anthropic_state = r.state,
                                      ![i].canon = @ \o r.events,
                                      ![i].frames = Append(@, frame)]
    /\ UNCHANGED <<sse_vars, norm_vars, acc_vars, req_vars>>

\* Response i is dropped where it stands.
DropResponse ==
    /\ \E i \in 1..2 :
          /\ ~responses[i].dropped
          /\ responses' = [responses EXCEPT ![i].dropped = TRUE]
    /\ UNCHANGED <<sse_vars, norm_vars, acc_vars, req_vars>>

\* ------------------------------------------------------------------------
\* Specifications
\* ------------------------------------------------------------------------
\* The SSE framer on one byte stream.
Init == SseInit /\ NormNew("openai") /\ AccNew /\ PromptNew /\ ResponsesNew
Next == PollYield \/ PollChunk \/ PollUpstreamError \/ PollEnd
Spec == Init /\ [][Next]_vars

\* One response of one provider.
NormSpecInit == NormInit /\ SseNew(<<>>) /\ AccNew /\ PromptNew /\ ResponsesNew
NormNext == OpenAIFrame \/ GoogleFrame \/ AnthropicFrame \/ EndOfStream \/ Buffer
SpecNorm == NormSpecInit /\ [][NormNext]_vars

\* One Anthropic tool call.
ToolInit == NormNew("anthropic") /\ SseNew(<<>>) /\ AccNew /\ PromptNew /\ ResponsesNew
ToolNext == AnthropicToolFrame
SpecTool == ToolInit /\ [][ToolNext]_vars

\* One ResponseAccumulator driven by its caller.
AccInit == AccNew /\ SseNew(<<>>) /\ NormNew("openai") /\ PromptNew /\ ResponsesNew
AccNext == ProcessEvent \/ Finalize
SpecAcc == AccInit /\ [][AccNext]_vars

\* One Response built by Response::from_stream on any stream, then buffered.
BufInit == NormNew("openai") /\ SseNew(<<>>) /\ AccNew /\ PromptNew /\ ResponsesNew
BufNext == StreamItem \/ EndOfStream \/ Buffer
SpecBuf == BufInit /\ [][BufNext]_vars

\* One Prompt and its encoding.
ReqInit == PromptNew /\ SseNew(<<>>) /\ NormNew("anthropic") /\ AccNew /\ ResponsesNew
ReqNext == WithItem \/ WithResponse \/ AnthropicConvertRequest \/ GoogleConvertRequest
SpecReq == ReqInit /\ [][ReqNext]_vars

\* Two responses of one Vertex provider.
SharedInit ==
    /\ \E p \in {"google", "anthropic"} : NormNew(p)
    /\ SseNew(<<>>) /\ AccNew /\ PromptNew /\ ResponsesNew
SharedNext == ConsumeFrame \/ DropResponse
SpecShared == SharedInit /\ [][SharedNext]_vars

\* ------------------------------------------------------------------------
\* Reference definitions used to state the framer's properties
\* ------------------------------------------------------------------------
Last(q) == q[Len(q)]

\* The lines of a byte stream by the event-stream grammar: a CRLF pair, a
\* lone CR and a lone LF each end one line; tail is the unterminated rest.
RECURSIVE RefSplit(_, _, _)
RefSplit(bytes, cur, acc) ==
    IF bytes = <<>> THEN [lines |-> acc, tail |-> cur]
    ELSE IF Head(bytes) = CR /\ Len(bytes) >= 2 /\ bytes[2] = LF
         THEN RefSplit(Drop(bytes, 2), <<>>, Append(acc, cur))
    ELSE IF Head(bytes) \in {CR, LF}
         THEN RefSplit(Tail(bytes), <<>>, Append(acc, cur))
    ELSE RefSplit(Tail(bytes), Append(cur, Head(bytes)), acc)

RefLines(bytes) == RefSplit(bytes, <<>>, <<>>).lines
RefTail(bytes) == RefSplit(bytes, <<>>, <<>>).tail

\* Every line is valid UTF-8 and the last line is a blank one: each event
\* block is closed.
WellFormed(bytes) ==
    LET r == RefSplit(bytes, <<>>, <<>>) IN
    /\ r.tail = <<>>
    /\ \A i \in 1..Len(r.lines) : ValidUtf8(r.lines[i])
    /\ r.lines # <<>> => Last(r.lines) = <<>>

\* A `data` line and its value by the grammar.
IsDataLine(line) == line = s_data \/ IsPrefix(s_data \o <<COLON>>, line)
RefDataValue(line) ==
    IF line = s_data THEN <<>>
    ELSE IF Len(line) >= 6 /\ line[6] = SPACE THEN Drop(line, 6)
    ELSE Drop(line, 5)

\* The data of the events that a sequence of decoded lines dispatches:
\* v1 LF v2 LF ... vk for each block with k >= 1 data lines, closed by a
\* blank line.  cur is <<>> (no data line yet) or <<joined values>>.
RECURSIVE RefEventData(_, _, _)
RefEventData(ls, cur, acc) ==
    IF ls = <<>> THEN acc
    ELSE LET l == Head(ls) IN
         IF l = <<>>
         THEN RefEventData(Tail(ls), <<>>, IF cur = <<>> THEN acc ELSE Append(acc, cur[1]))
         ELSE IF IsDataLine(l)
         THEN RefEventData(Tail(ls),
                           IF cur = <<>> THEN <<RefDataValue(l)>>
                           ELSE <<(cur[1] \o <<LF>>) \o RefDataValue(l)>>,
                           acc)
         ELSE RefEventData(Tail(ls), cur, acc)

RECURSIVE SelectValid(_)
SelectValid(ls) ==
    IF ls = <<>> THEN <<>>
    ELSE IF ValidUtf8(Head(ls)) THEN <<Head(ls)>> \o SelectValid(Tail(ls))
    ELSE SelectValid(Tail(ls))

\* The events dispatched so far: those returned, then those still queued.
RECURSIVE OkEvents(_)
OkEvents(items) ==
    IF items = <<>> THEN <<>>
    ELSE IF Head(items).kind = "event" THEN <<Head(items).ev>> \o OkEvents(Tail(items))
    ELSE OkEvents(Tail(items))

Dispatched == OkEvents(out) \o events
DataOf(evs) == [i \in 1..Len(evs) |-> evs[i].data]

Utf8Error == ErrItem("Invalid UTF-8 in SSE event", SseEvent_default, <<>>)
HasError(items) == \E i \in 1..Len(items) : items[i].kind = "error"
MessageEvent(d) == [SseEvent_default EXCEPT !.data = d, !.event_type = s_message]

\* What poll_next returns, up to the first report of the upstream's end,
\* when the whole stream arrives as one chunk.
SingleChunkOutput(bytes) ==
    LET st == parse_buffer([line_buffer |-> <<>>, last_seen_cr |-> FALSE,
                            eb |-> [current_event |-> SseEvent_default, events |-> <<>>],
                            lines |-> <<>>, err |-> FALSE], bytes)
        evs == [i \in 1..Len(st.eb.events) |-> OkItem(st.eb.events[i])]
        fin == IF st.line_buffer # <<>>
               THEN ErrItem("Incomplete line buffer at end of stream",
                            SseEvent_default, st.line_buffer)
               ELSE IF ~is_empty(st.eb.current_event)
               THEN ErrItem("Incomplete event at end of stream", st.eb.current_event, <<>>)
               ELSE EndItem
    IN  ((IF st.err THEN <<Utf8Error>> ELSE <<>>) \o evs) \o <<fin>>

\* The upstream delivered all of `stream` and has reported its end once.
Finished == eof_polls = 1 /\ ~up_failed

\* ------------------------------------------------------------------------
\* Properties of the SSE framer
\* ------------------------------------------------------------------------

\* C1: for a stream of well-formed events with any mixture of LF, CR and
\* CRLF terminators, whatever the chunks it arrives in, the framer returns
\* the same events and errors as when it arrives as a single chunk.
C1_ChunkIndependent ==
    (Finished /\ WellFormed(stream)) => out = SingleChunkOutput(stream)

\* C2 (as stated): for any UTF-8 string S, the bytes of `data: S LF LF`, in
\* whatever chunks, give exactly one event whose data is S, then a clean
\* end of stream.
C2_AnyString ==
    Finished =>
        \A S \in Strings(MaxStrLen) :
            stream = DataStream(S) => out = <<OkItem(MessageEvent(S)), EndItem>>

\* C2 (amended): the same for every UTF-8 string S that holds no LF and no
\* CR.
NoTerminator(S) == \A i \in 1..Len(S) : S[i] \notin {LF, CR}
C2_SingleLineString ==
    Finished =>
        \A S \in Strings(MaxStrLen) :
            (NoTerminator(S) /\ stream = DataStream(S))
                => out = <<OkItem(MessageEvent(S)), EndItem>>

C2_Witness ==
    /\ Finished
    /\ split_cp
    /\ stream = DataStream(<<COLON>> \o Euro)
    /\ out = <<OkItem(MessageEvent(<<COLON>> \o Euro)), EndItem>>

\* C3: every CR, LF and CRLF pair of the stream ends exactly one line (the
\* framer decodes exactly the lines of the grammar, in order) and a blank
\* line dispatches the event; the stream of scenario S5 gives the events
\* "a LF b" and "c", then a clean end.
C3_TerminatorsCountOnce ==
    LET ref == RefLines(stream) IN
    (Finished /\ \A i \in 1..Len(ref) : ValidUtf8(ref[i]))
        => /\ lines = ref
           /\ stream = S5Stream =>
                 out = <<OkItem(MessageEvent(<<97, LF, 98>>)), OkItem(MessageEvent(<<99>>)),
                         EndItem>>

\* C4: the data of each dispatched event is the values of the data lines
\* of its block joined by single LFs, in arrival order, with no trailing
\* LF: v1 LF v2 ... LF vk.
C4_DataJoined == DataOf(Dispatched) = RefEventData(SelectValid(lines), <<>>, <<>>)

C4_Witness ==
    /\ Finished
    /\ \E i \in 1..Len(out) : out[i].kind = "event" /\ out[i].ev.data = <<97, LF, 98>>
    /\ \E i \in 1..Len(out) : out[i].kind = "event" /\ out[i].ev.data = <<99>>

\* C5: an invalid-UTF-8 error is returned exactly once for each completed
\* line that is not valid UTF-8, and never for a stream whose lines are all
\* valid UTF-8, wherever the chunk boundaries fall.
Utf8Errors(items) == {i \in 1..Len(items) : items[i] = Utf8Error}
InvalidLines(ls) == {i \in 1..Len(ls) : ~ValidUtf8(ls[i])}
C5_DecodePerLine ==
    LET r == RefSplit(stream, <<>>, <<>>) IN
    /\ Cardinality(Utf8Errors(out)) = Cardinality(InvalidLines(lines))
    /\ Utf8Errors(out) # {} =>
          \/ \E i \in 1..Len(r.lines) : ~ValidUtf8(r.lines[i])
          \/ ~ValidUtf8(r.tail)

C5_Witness ==
    /\ Finished
    /\ split_cp
    /\ stream = DataStream(Euro \o Euro)
    /\ ~HasError(out)
    /\ lines = <<DataLine(Euro \o Euro), <<>>>>

\* C6: when the upstream ends while the partial-line buffer holds bytes,
\* the framer returns an error, and every event dispatched before has been
\* returned before that error.
C6_DanglingLineIsError ==
    (eof_polls >= 1 /\ line_buffer # <<>>)
        => /\ Last(out) = ErrItem("Incomplete line buffer at end of stream",
                                  SseEvent_default, line_buffer)
           /\ events = <<>>
           /\ Len(OkEvents(out)) = Len(RefEventData(SelectValid(lines), <<>>, <<>>))

C6_Witness ==
    /\ eof_polls = 1
    /\ ~up_failed
    /\ line_buffer = s_data \o <<COLON, 97>>
    /\ Len(out) = 2
    /\ out[1].kind = "event"
    /\ out[2].kind = "error"

\* C7: once the framer has returned an error, every later poll returns
\* end-of-stream: no event and no error follows an error.
C7_ErrorsTerminal ==
    [][HasError(out) => (out' = out \/ out' = Append(out, EndItem))]_vars

\* C8: items are returned in byte-stream order: when the framer returns an
\* invalid-UTF-8 error, no event dispatched before the failing line is
\* still waiting to be returned.
C8_EventsBeforeError ==
    [][out' = Append(out, Utf8Error) => events' = <<>>]_vars

\* ------------------------------------------------------------------------
\* Properties of the canonical stream and of the buffered response
\* ------------------------------------------------------------------------
IsTerminal(item) == item.kind \in {"Done", "Err", "Error"}
HasDone(items) == \E i \in 1..Len(items) : items[i].kind = "Done"
FunctionCallsOf(response) ==
    {i \in 1..Len(response.output) : response.output[i].type = "FunctionCall"}

\* C9: in the canonical stream of each provider a Done or an error is the
\* only terminal item and the last item: no second Done, no Done after an
\* error and no event after Done, whatever the frames.
C9_TerminalIsLast ==
    \A i \in 1..Len(canon) : IsTerminal(canon[i]) => i = Len(canon)

\* C10: the buffered response of a stream that ended with Done has
\* finish_reason ToolCalls exactly when its output holds a FunctionCall
\* item.
C10_ToolCallsIffFunctionCall ==
    (buffered.status = "ok" /\ HasDone(canon))
        => (buffered.response.finish_reason = "ToolCalls"
                <=> FunctionCallsOf(buffered.response) # {})

\* ------------------------------------------------------------------------
\* Properties of the OpenAI normalizer
\* ------------------------------------------------------------------------
Count(items, x) == Cardinality({i \in 1..Len(items) : items[i] = x})
Positions(items, x) == {i \in 1..Len(items) : items[i] = x}

\* A function call reported by response.output_item.done, and the
\* response.completed frame whose output lists the same item.
OpenAIDoneFrame == OpenAIEvent("response.output_item.done", <<>>, <<OpenAIFunctionItem>>, <<>>)
OpenAICompletedFrame ==
    OpenAIEvent("response.completed", <<>>, <<>>,
                <<OpenAIResponse(<<OpenAIFunctionItem>>, Usage(5, 3, <<>>))>>)
OpenAICall == FunctionCall("fc_1", "call_1", "get_weather", ArgsParisText)

\* The call is reported once by a done frame and once, later, by the
\* completed frame.
ReportedTwice ==
    /\ provider = "openai"
    /\ Count(frames, OpenAIDoneFrame) = 1
    /\ Count(frames, OpenAICompletedFrame) = 1
    /\ \A i \in Positions(frames, OpenAIDoneFrame) :
          \A j \in Positions(frames, OpenAICompletedFrame) : i < j

\* C11: when a function call is reported by a response.output_item.done
\* frame and again in the output of the later response.completed frame,
\* the canonical stream holds exactly one FunctionCallComplete for it, and
\* the buffered response holds the call once.
C11_NoDuplicateCompletion ==
    ReportedTwice =>
        /\ Count(canon, FunctionCallComplete(OpenAICall)) = 1
        /\ buffered.status = "ok" =>
              Count(buffered.response.output, FunctionCallItem(OpenAICall)) = 1

\* The frames hold no framer error and no response.completed.
NoCompletedFrame ==
    \A i \in 1..Len(frames) :
        /\ frames[i].t # "sse_err"
        /\ frames[i].t = "event" => frames[i].type # "response.completed"

\* C12: when the body of an OpenAI response that carried text ends cleanly
\* and held no response.completed frame, the canonical stream ends with
\* exactly one Done, with finish_reason Stop and default usage.
C12_SynthesizedDone ==
    (/\ provider = "openai" /\ closed /\ NoCompletedFrame
     /\ \E i \in 1..Len(canon) : canon[i].kind = "ContentDelta")
        => /\ canon # <<>>
           /\ Last(canon) = Done("Stop", Usage_default)
           /\ Cardinality({i \in 1..Len(canon) : canon[i].kind = "Done"}) = 1

\* ------------------------------------------------------------------------
\* Properties of the Anthropic normalizer
\* ------------------------------------------------------------------------
IsEmptyToolStart(f) ==
    /\ f.type = "content_block_start"
    /\ f.index = 0
    /\ f.content_block.type = "tool_use"
    /\ f.content_block.input \in {JsonNull, JsonObject(<<>>)}
IsFragment(f) ==
    f.type = "content_block_delta" /\ f.index = 0 /\ f.delta.type = "input_json_delta"
IsToolStop(f) == f.type = "content_block_stop" /\ f.index = 0

\* The fragments of frames a..b, concatenated in arrival order.
RECURSIVE ConcatFragments(_, _, _)
ConcatFragments(fs, a, b) ==
    IF a > b THEN <<>> ELSE fs[a].delta.partial_json \o ConcatFragments(fs, a + 1, b)

\* C13: when a tool_use block whose initial input is null or the empty
\* object is followed by N input_json_delta fragments for its index and
\* then by content_block_stop, the FunctionCallComplete emitted at the stop
\* has as arguments the concatenation of the N fragments in arrival order.
C13_FragmentsConcatenate ==
    \A i \in 1..Len(frames) :
        (/\ i < Len(frames)
         /\ IsEmptyToolStart(frames[i])
         /\ IsToolStop(frames[Len(frames)])
         /\ \A k \in (i + 1)..(Len(frames) - 1) : IsFragment(frames[k]))
            => /\ canon # <<>>
               /\ Last(canon) = FunctionCallComplete(
                     FunctionCall(<<>>, frames[i].content_block.id,
                                  frames[i].content_block.name,
                                  ConcatFragments(frames, i + 1, Len(frames) - 1)))

C13_Witness ==
    /\ Len(frames) = 4
    /\ IsEmptyToolStart(frames[1])
    /\ IsFragment(frames[2]) /\ frames[2].delta.partial_json # <<>>
    /\ IsFragment(frames[3]) /\ frames[3].delta.partial_json # <<>>
    /\ IsToolStop(frames[4])
    /\ Last(canon) = FunctionCallComplete(
                        FunctionCall(<<>>, "toolu_1", "get_weather", ToolArgsText))

IsMessageDelta(f) == f.t = "event" /\ f.type = "message_delta"
IsMessageStop(f) == f.t = "event" /\ f.type = "message_stop"
StopReasonOf(s) ==
    IF s = "tool_use" THEN "ToolCalls" ELSE IF s = "max_tokens" THEN "Length" ELSE "Stop"

\* The stop reason and the usage captured from the message_delta frames:
\* those of the latest frame that supplies them, Stop and the default usage
\* when none does.
RECURSIVE CapturedStopReason(_)
CapturedStopReason(fs) ==
    IF fs = <<>> THEN "Stop"
    ELSE IF IsMessageDelta(Last(fs)) /\ Last(fs).delta.stop_reason # <<>>
         THEN StopReasonOf(Last(fs).delta.stop_reason[1])
    ELSE CapturedStopReason(SubSeq(fs, 1, Len(fs) - 1))
RECURSIVE CapturedUsage(_)
CapturedUsage(fs) ==
    IF fs = <<>> THEN Usage_default
    ELSE IF IsMessageDelta(Last(fs)) /\ Last(fs).delta.usage # <<>>
         THEN Last(fs).delta.usage[1]
    ELSE CapturedUsage(SubSeq(fs, 1, Len(fs) - 1))

\* C14: the Done that the Anthropic normalizer emits at message_stop
\* carries the stop reason and the usage captured from the message_delta
\* frames before it, and Stop with default usage when there were none.
C14_DoneCarriesMessageDelta ==
    (provider = "anthropic" /\ frames # <<>> /\ IsMessageStop(Last(frames)))
        => /\ canon # <<>>
           /\ Last(canon) = Done(CapturedStopReason(frames), CapturedUsage(frames))

\* ------------------------------------------------------------------------
\* Properties of the Gemini normalizer
\* ------------------------------------------------------------------------
\* Every ContentDelta comes after an OutputItemAdded{Text} with no
\* FunctionCallComplete in between.
DeltaInsideText(items) ==
    \A i \in 1..Len(items) :
        items[i].kind = "ContentDelta" =>
            \E j \in 1..(i - 1) :
                /\ items[j] = OutputItemAddedText
                /\ \A k \in (j + 1)..(i - 1) : items[k].kind # "FunctionCallComplete"

\* C15: each ContentDelta is emitted only while the tail of the output
\* sequence is a Text item; stated for the Gemini normalizer, which makes
\* every announcement itself: it announces a new Text item before the first
\* text part that follows a functionCall part.
C15_DeltaOnlyInsideText ==
    provider = "google" => DeltaInsideText(canon)

\* ------------------------------------------------------------------------
\* Properties of every normalizer
\* ------------------------------------------------------------------------
IsAnnouncement(item, name) ==
    /\ item.kind = "OutputItemAdded"
    /\ item.item.type = "FunctionCall"
    /\ item.item.name = name

\* Every FunctionCallComplete comes after an OutputItemAdded{FunctionCall}
\* with its name; with its name and an id equal to its call_id.
Announced(items) ==
    \A i \in 1..Len(items) :
        items[i].kind = "FunctionCallComplete" =>
            \E j \in 1..(i - 1) : IsAnnouncement(items[j], items[i].call.name)
AnnouncedWithId(items) ==
    \A i \in 1..Len(items) :
        items[i].kind = "FunctionCallComplete" =>
            \E j \in 1..(i - 1) :
                /\ IsAnnouncement(items[j], items[i].call.name)
                /\ items[j].item.id = items[i].call.call_id

\* C16 (as stated): for every normalizer and every frame sequence, each
\* FunctionCallComplete is preceded by an OutputItemAdded{FunctionCall} with
\* the same name, and for Anthropic with an id equal to the call_id.
C16_EveryNormalizer ==
    /\ Announced(canon)
    /\ provider = "anthropic" => AnnouncedWithId(canon)

\* The names of the function calls an OpenAI frame reports as complete.
RECURSIVE OutputCallNames(_)
OutputCallNames(output) ==
    IF output = <<>> THEN {}
    ELSE (IF OpenAIFunctionCallOf(Head(output)) # <<>> THEN {Head(output).name} ELSE {})
            \cup OutputCallNames(Tail(output))
ReportedCallNames(f) ==
    IF f.t # "event" THEN {}
    ELSE IF f.type = "response.output_item.done" /\ f.item # <<>>
    THEN OutputCallNames(f.item)
    ELSE IF f.type = "response.completed" /\ f.response # <<>>
    THEN OutputCallNames(f.response[1].output)
    ELSE {}
\* The provider sent response.output_item.added, with the name, for every
\* function call before reporting it complete.
ProviderAnnounced(fs) ==
    \A i \in 1..Len(fs) : \A n \in ReportedCallNames(fs[i]) :
        \E j \in 1..(i - 1) :
            /\ fs[j].t = "event"
            /\ fs[j].type = "response.output_item.added"
            /\ fs[j].item # <<>>
            /\ fs[j].item[1].type = "function_call"
            /\ fs[j].item[1].name = n

\* C16 (amended): the same for the Gemini and Anthropic normalizers and
\* every frame sequence, and for the OpenAI normalizer when the provider
\* announced each function call, with its name, before reporting it
\* complete.
C16_CompletionAnnounced ==
    /\ provider = "google" => Announced(canon)
    /\ provider = "anthropic" => AnnouncedWithId(canon)
    /\ (provider = "openai" /\ ProviderAnnounced(frames)) => Announced(canon)

C16_Witness ==
    /\ provider = "google"
    /\ Len(frames) = 2
    /\ frames[1] = frames[2]
    /\ Count(canon, FunctionCallComplete(
                       FunctionCall(<<>>, <<"call_", 1>>, "get_weather", ArgsParisText))) = 1
    /\ Cardinality({i \in 1..Len(canon) : IsAnnouncement(canon[i], "get_weather")}) = 1

\* The completions and the announcements of the call get_weather(Paris),
\* the one functionCall part (one fingerprint) of the Gemini frames.
GoogleCompletions(items) ==
    {i \in 1..Len(items) :
        /\ items[i].kind = "FunctionCallComplete"
        /\ items[i].call.name = "get_weather"
        /\ items[i].call.arguments = ArgsParisText}
GoogleAnnouncements(items) ==
    {j \in 1..Len(items) : IsAnnouncement(items[j], "get_weather")}

\* C17: a functionCall part repeated in several frames of one Gemini
\* response causes no duplicates: one OutputItemAdded{FunctionCall}, one
\* completion and one FunctionCall item in the buffered response, and the
\* call_id of a completion is the one made with the announced id.
C17_RepeatedCallNoDuplicate ==
    provider = "google" =>
        /\ Cardinality(GoogleAnnouncements(canon)) <= 1
        /\ Cardinality(GoogleCompletions(canon)) <= 1
        /\ \A i \in GoogleCompletions(canon) : \A j \in GoogleAnnouncements(canon) :
              canon[i].call.call_id[2] = canon[j].item.id[2]
        /\ buffered.status = "ok" => Cardinality(FunctionCallsOf(buffered.response)) <= 1

\* A frame that holds usageMetadata and no candidate: the list is empty or
\* the key is absent.
IsUsageOnly(f) ==
    /\ f.t \in {"response", "no_candidates"}
    /\ f.usage_metadata # <<>>
    /\ f.t = "response" => f.candidates = <<>>

\* C18: a Gemini frame that holds only usageMetadata emits Done with
\* finish_reason Stop and the usage of that metadata, and no error.
C18_UsageOnlyEmitsDone ==
    (provider = "google" /\ frames # <<>> /\ IsUsageOnly(Last(frames)))
        => /\ canon # <<>>
           /\ Last(canon) = Done("Stop", GoogleUsageInto(Last(frames).usage_metadata[1]))

\* ------------------------------------------------------------------------
\* The accumulator
\* ------------------------------------------------------------------------
TextToken(x) == [text |-> <<x>>, call |-> <<>>]
CallToken(c) == [text |-> <<>>, call |-> <<c>>]

\* The output list read left to right: every piece of text and every call.
RECURSIVE ItemTokens(_)
ItemTokens(items) ==
    IF items = <<>> THEN <<>>
    ELSE LET item == Head(items) IN
         (IF item.type = "Text"
          THEN [i \in 1..Len(item.content) |-> TextToken(item.content[i])]
          ELSE <<CallToken(item.call)>>) \o ItemTokens(Tail(items))

\* The events in arrival order: every piece of delta text and every
\* completed call.
RECURSIVE EventTokens(_)
EventTokens(evs) ==
    IF evs = <<>> THEN <<>>
    ELSE LET event == Head(evs) IN
         (IF event.kind = "ContentDelta"
          THEN [i \in 1..Len(event.delta) |-> TextToken(event.delta[i])]
          ELSE IF event.kind = "FunctionCallComplete"
          THEN <<CallToken(event.call)>>
          ELSE <<>>) \o EventTokens(Tail(evs))

IsTextToken(t) == t.text # <<>>
IsCallToken(t) == t.call # <<>>

\* C19: the accumulator never reorders. The calls of the FunctionCall items
\* are the calls of the FunctionCallComplete events in arrival order, the
\* Text contents concatenated are the ContentDelta deltas concatenated, and
\* text lies before a call in the output exactly when its delta arrived
\* before that call's completion: the output read left to right is the
\* events' text and calls in arrival order.
C19_NeverReordered ==
    LET out_tokens == ItemTokens(accumulator.output_items)
        in_tokens == EventTokens(seen)
    IN  /\ SelectSeq(out_tokens, IsCallToken) = SelectSeq(in_tokens, IsCallToken)
        /\ SelectSeq(out_tokens, IsTextToken) = SelectSeq(in_tokens, IsTextToken)
        /\ out_tokens = in_tokens

\* Text, a call, text: three items in the order their events arrived.
C19_Witness ==
    /\ Len(accumulator.output_items) = 3
    /\ accumulator.output_items[1].type = "Text"
    /\ accumulator.output_items[1].content # <<>>
    /\ accumulator.output_items[2].type = "FunctionCall"
    /\ accumulator.output_items[3].type = "Text"
    /\ accumulator.output_items[3].content # <<>>

IsDone(event) == event.kind = "Done"

\* C20: finalize returns the accumulated items in order, with the
\* finish_reason and usage of the last Done seen, or Stop and all-zero usage
\* when no Done was seen; a single Done{Stop, zero usage} gives empty output,
\* Stop and zero usage.
C20_Finalize ==
    completed # <<>> =>
        LET dones == SelectSeq(seen, IsDone) IN
        /\ completed[1].output = accumulator.output_items
        /\ ItemTokens(completed[1].output) = EventTokens(seen)
        /\ dones # <<>> =>
              /\ completed[1].finish_reason = Last(dones).finish_reason
              /\ completed[1].usage = Last(dones).usage
        /\ dones = <<>> =>
              /\ completed[1].finish_reason = "Stop"
              /\ completed[1].usage = Usage_default
        /\ seen = <<Done("Stop", Usage_default)>> =>
              completed[1] = [output |-> <<>>, finish_reason |-> "Stop",
                             usage |-> Usage_default]

\* finalize after two Done events with different finish reasons and an item.
C20_Witness ==
    /\ completed # <<>>
    /\ completed[1].output # <<>>
    /\ Len(SelectSeq(seen, IsDone)) = 2
    /\ seen[Len(seen)] = Done("ToolCalls", Usage(10, 4, <<>>))
    /\ completed[1].finish_reason = "ToolCalls"

\* ------------------------------------------------------------------------
\* Response::buffer and Response::text
\* ------------------------------------------------------------------------
IsFailure(item) == item.kind \in {"Err", "Error"}

\* The stream yields an Err item or an Error event before any Done.
FailsBeforeDone(items) ==
    \E i \in 1..Len(items) :
        /\ IsFailure(items[i])
        /\ \A j \in 1..(i - 1) : items[j].kind # "Done"

\* C21: when the stream yields an Err item or a StreamEvent::Error before a
\* Done, buffer and text return an error and no CompleteResponse, whatever
\* was accumulated before it.
C21_ErrorGivesNoResponse ==
    (buffered.status # "none" /\ FailsBeforeDone(canon))
        => /\ buffered.status = "err"
           /\ buffered.response = NoResponse
           /\ text(canon).status = "err"
           /\ text(canon).text = <<>>

\* buffer has returned for a stream that yielded text, a completed call and
\* then an Error event.
C21_Witness ==
    /\ buffered.status = "err"
    /\ Len(canon) >= 3
    /\ canon[1].kind = "ContentDelta"
    /\ canon[2].kind = "FunctionCallComplete"
    /\ canon[3].kind = "Error"

\* ------------------------------------------------------------------------
\* Prompts and request encoding
\* ------------------------------------------------------------------------
\* C22: with_response(r) appends r.to_items() after the existing items and
\* leaves them unchanged; to_items maps the output list one to one in order:
\* a Text item to an assistant Message with the same content, a FunctionCall
\* item to an InputItem::FunctionCall with the same call.
C22_WithResponseAppends ==
    appended # <<>> =>
        LET before == appended[1].before
            after == appended[1].after
            output == appended[1].response.output
        IN  /\ Len(after) = Len(before) + Len(output)
            /\ \A i \in 1..Len(before) : after[i] = before[i]
            /\ \A i \in 1..Len(output) :
                  /\ output[i].type = "Text" =>
                        after[Len(before) + i] = Message("assistant", output[i].content)
                  /\ output[i].type = "FunctionCall" =>
                        after[Len(before) + i] = InputFunctionCall(output[i].call)
            /\ Len(prompt) >= Len(after)
            /\ SubSeq(prompt, 1, Len(after)) = after

\* A response of a Text item and a FunctionCall item appended to a prompt
\* that held items.
C22_Witness ==
    /\ appended # <<>>
    /\ appended[1].before # <<>>
    /\ Len(appended[1].response.output) = 2
    /\ appended[1].response.output[1].type = "Text"
    /\ appended[1].response.output[2].type = "FunctionCall"

IsFunctionCallItem(item) == item.type = "FunctionCall"
IsPlainMessage(item) == item.type = "Message"

\* The prompt is a history of messages, then a buffered response that holds
\* one tool call, then the output of that call; it was encoded for Anthropic.
IsFollowUp ==
    /\ appended # <<>>
    /\ anthropic_request # <<>>
    /\ \A i \in 1..Len(appended[1].before) : IsPlainMessage(appended[1].before[i])
    /\ Len(SelectSeq(appended[1].response.output, IsFunctionCallItem)) = 1
    /\ Len(prompt) = Len(appended[1].after) + 1
    /\ SubSeq(prompt, 1, Len(appended[1].after)) = appended[1].after
    /\ prompt[Len(prompt)].type = "FunctionCallOutput"
    /\ prompt[Len(prompt)].call_id =
           SelectSeq(appended[1].response.output, IsFunctionCallItem)[1].call.call_id

FollowUpCall == SelectSeq(appended[1].response.output, IsFunctionCallItem)[1].call

HoldsBlock(message, type) ==
    /\ message.content.kind = "Blocks"
    /\ \E k \in 1..Len(message.content.blocks) : message.content.blocks[k].type = type

\* The wire body has exactly one assistant message holding a tool_use block,
\* whose id is call_id, and exactly one user message holding tool results,
\* later, with the single block tool_result{call_id, output}.
OneToolUseOneToolResult(body, call_id, output) ==
    /\ body.status = "ok"
    /\ \E i, j \in 1..Len(body.messages) :
          /\ i < j
          /\ body.messages[i].role = "assistant"
          /\ HoldsBlock(body.messages[i], "tool_use")
          /\ \A k \in 1..Len(body.messages[i].content.blocks) :
                body.messages[i].content.blocks[k].type = "tool_use"
                    => body.messages[i].content.blocks[k].id = call_id
          /\ body.messages[j].role = "user"
          /\ body.messages[j].content = AnthropicContentBlocks(<<ToolResultBlock(call_id, output)>>)
          /\ \A m \in 1..Len(body.messages) :
                /\ HoldsBlock(body.messages[m], "tool_use") => m = i
                /\ HoldsBlock(body.messages[m], "tool_result") => m = j

BlocksOf(c) == IF c.kind = "Text" THEN <<TextBlock(c.text)>> ELSE c.blocks

\* The index of the most recent assistant message, 0 when there is none.
LastAssistant(messages) ==
    LET S == {i \in 1..Len(messages) : messages[i].role = "assistant"} IN
    IF S = {} THEN 0 ELSE CHOOSE i \in S : \A j \in S : j <= i

\* C24: a FunctionCall item is attached as a tool_use block to the most
\* recent assistant message of the history built so far, its content
\* promoted to a block array; a new assistant message is created only if no
\* assistant message exists yet, also when a user message lies in between.
C24_AttachedToMostRecentAssistant ==
    (anthropic_request # <<>> /\ anthropic_request[1].status = "ok") =>
        \A k \in 1..Len(prompt) :
            prompt[k].type = "FunctionCall" =>
                LET pre == anthropic_convert_request(SubSeq(prompt, 1, k - 1)).messages
                    post == anthropic_convert_request(SubSeq(prompt, 1, k)).messages
                    block == ToolUseBlock(prompt[k].call.call_id, prompt[k].call.name,
                                          from_str(prompt[k].call.arguments).value)
                    a == LastAssistant(pre)
                IN  IF a = 0
                    THEN post = Append(pre, AnthropicMessage("assistant",
                                               AnthropicContentBlocks(<<block>>)))
                    ELSE post = [pre EXCEPT ![a].content =
                                    AnthropicContentBlocks(Append(BlocksOf(@), block))]

IsOutput(item) == item.type = "FunctionCallOutput"

\* The maximal runs [a, b] of consecutive FunctionCallOutput items that
\* start the prompt or follow a user message, an assistant message or a
\* FunctionCall item.
OutputRuns ==
    {r \in (1..Len(prompt)) \X (1..Len(prompt)) :
        /\ r[1] <= r[2]
        /\ \A k \in r[1]..r[2] : IsOutput(prompt[k])
        /\ r[2] < Len(prompt) => ~IsOutput(prompt[r[2] + 1])
        /\ r[1] > 1 => /\ ~IsOutput(prompt[r[1] - 1])
                       /\ ~(IsPlainMessage(prompt[r[1] - 1])
                              /\ prompt[r[1] - 1].role = "system")}

\* C25 for Anthropic: the N outputs of a run give exactly one new user
\* message holding their N tool_result blocks in input order.
AnthropicCoalesces ==
    (anthropic_request # <<>> /\ anthropic_request[1].status = "ok") =>
        \A r \in OutputRuns :
            LET pre == anthropic_convert_request(SubSeq(prompt, 1, r[1] - 1)).messages
                post == anthropic_convert_request(SubSeq(prompt, 1, r[2])).messages
            IN  post = Append(pre, AnthropicMessage("user",
                           AnthropicContentBlocks(
                               [i \in 1..(r[2] - r[1] + 1) |->
                                   ToolResultBlock(prompt[r[1] + i - 1].call_id,
                                                   prompt[r[1] + i - 1].output)])))

\* C25 for Gemini: the N outputs of a run give exactly one new user content
\* holding N functionResponse parts with the outputs in input order.
GoogleCoalesces ==
    (google_request # <<>> /\ google_request[1].status = "ok") =>
        \A r \in OutputRuns :
            LET pre == google_convert_request(SubSeq(prompt, 1, r[1] - 1)).contents
                post == google_convert_request(SubSeq(prompt, 1, r[2])).contents
            IN  /\ Len(post) = Len(pre) + 1
                /\ SubSeq(post, 1, Len(pre)) = pre
                /\ post[Len(post)].role = "user"
                /\ Len(post[Len(post)].parts) = r[2] - r[1] + 1
                /\ \A i \in 1..(r[2] - r[1] + 1) :
                      /\ post[Len(post)].parts[i].type = "functionResponse"
                      /\ post[Len(post)].parts[i].response = prompt[r[1] + i - 1].output

C26_ResponseNamedAfterItsCall ==
    (google_request # <<>> /\ google_request[1].status = "ok") =>
        LET outputs == SelectSeq(prompt, IsOutput)
            parts == SelectSeq(PartsOfRole(google_request[1].contents, "user"),
                               IsFunctionResponsePart)
        IN  /\ Len(parts) = Len(outputs)
            /\ \A n \in 1..Len(outputs) :
                  \A k \in 1..Len(prompt) :
                      (IsFunctionCallItem(prompt[k])
                          /\ prompt[k].call.call_id = outputs[n].call_id)
                        => parts[n].name = prompt[k].call.name

\* ------------------------------------------------------------------------
\* Concurrent responses
\* ------------------------------------------------------------------------
\* What the frames of a response yield when it is consumed alone.
ConsumedAlone(p, fs) ==
    IF p = "google" THEN google_events(fs, GoogleStreamState_default, 0)
    ELSE anthropic_events(fs, StreamState_default)

\* C27: normalizer state is created afresh per generate call, so when two
\* responses of one provider are consumed in any interleaving, or one is
\* dropped mid-stream, the canonical events of each equal the ones its
\* frames yield when consumed alone (Gemini's fresh UUIDs compared by rank).
C27_ResponsesIndependent ==
    \A i \in 1..2 : responses[i].canon = ConsumedAlone(provider, responses[i].frames)

\* Both responses consumed frames that depend on the normalizer state, and
\* one of them was dropped before the other went on to complete a call.
C27_Witness ==
    /\ responses[1].dropped
    /\ Len(responses[1].frames) >= 1
    /\ Len(responses[1].frames) < Len(responses[2].frames)
    /\ ~responses[2].dropped
    /\ \E k \in 1..Len(responses[2].canon) :
          responses[2].canon[k].kind = "FunctionCallComplete"
    /\ responses[1].canon # <<>>

\* ------------------------------------------------------------------------
\* More properties of the SSE framer
\* ------------------------------------------------------------------------
\* The bytes the framer has consumed so far.
Consumed == Take(stream, Len(stream) - Len(rest))

\* C28: in every reachable state last_seen_cr is true only if the most
\* recently consumed byte was CR, hence only with an empty partial-line
\* buffer: an LF that opens a chunk is absorbed only when the byte just
\* before it in the stream was CR.
C28_LastSeenCrMeansLastByteCr ==
    last_seen_cr =>
        /\ Consumed # <<>>
        /\ Consumed[Len(Consumed)] = CR
        /\ line_buffer = <<>>

\* C29: the framer never returns an event whose data is empty and whose id
\* and retry are unset: a block of only comments, only unknown fields or only
\* a `data` field with an empty value dispatches no event.
C29_NoEmptyEvent ==
    \A i \in 1..Len(out) :
        out[i].kind = "event" =>
            ~(out[i].ev.data = <<>> /\ out[i].ev.id = <<>> /\ out[i].ev.retry = <<>>)

\* ------------------------------------------------------------------------
\* The Anthropic buffer rule
\* ------------------------------------------------------------------------
IsToolStart(f) ==
    f.type = "content_block_start" /\ f.index = 0 /\ f.content_block.type = "tool_use"
IsDeltaFrame(f) == f.type = "content_block_delta" /\ f.delta.type = "input_json_delta"
HasInitialInput(f) ==
    ~(f.content_block.input = JsonNull \/ f.content_block.input = JsonObject(<<>>))

\* The index of the last fragment for block 0 among frames a..b, 0 if none.
LastFragment(fs, a, b) ==
    LET S == {k \in a..b : IsFragment(fs[k])} IN
    IF S = {} THEN 0 ELSE CHOOSE k \in S : \A j \in S : j <= k

\* The fragments for block 0 among frames a..b, concatenated.
RECURSIVE ConcatOwnFragments(_, _, _)
ConcatOwnFragments(fs, a, b) ==
    IF a > b THEN <<>>
    ELSE (IF IsFragment(fs[a]) THEN fs[a].delta.partial_json ELSE <<>>)
            \o ConcatOwnFragments(fs, a + 1, b)

\* The most recent content_block_start of block 0, 0 if none or if the
\* block was stopped since.
OpenToolStart(fs) ==
    LET S == {k \in 1..Len(fs) :
                 IsToolStart(fs[k]) /\ \A j \in (k + 1)..Len(fs) :
                                          ~IsToolStart(fs[j]) /\ ~IsToolStop(fs[j])} IN
    IF S = {} THEN 0 ELSE CHOOSE k \in S : TRUE

\* C30: for a tool_use block with non-empty initial input each
\* input_json_delta replaces the buffer, so the arguments at
\* content_block_stop are the last fragment received, or json(input) when
\* none arrived; for a block with null or empty-object input each fragment is
\* appended; the mode is fixed at content_block_start and does not change
\* while the block is in progress.
C30_BufferRule ==
    /\ \A i \in 1..Len(frames) :
          (/\ i < Len(frames)
           /\ IsToolStart(frames[i])
           /\ IsToolStop(frames[Len(frames)])
           /\ \A k \in (i + 1)..(Len(frames) - 1) : IsDeltaFrame(frames[k]))
              => LET last == LastFragment(frames, i + 1, Len(frames) - 1)
                     arguments ==
                         IF HasInitialInput(frames[i])
                         THEN IF last = 0 THEN to_string(frames[i].content_block.input)
                              ELSE frames[last].delta.partial_json
                         ELSE ConcatOwnFragments(frames, i + 1, Len(frames) - 1)
                 IN  /\ canon # <<>>
                     /\ Last(canon) = FunctionCallComplete(
                           FunctionCall(<<>>, frames[i].content_block.id,
                                        frames[i].content_block.name, arguments))
    /\ LET open == OpenToolStart(frames) IN
       /\ open # 0 <=> 0 \in DOMAIN anthropic_state.in_progress_calls
       /\ open # 0 => anthropic_state.in_progress_calls[0].has_initial_input
                          = HasInitialInput(frames[open])

\* A block with initial input, two different fragments, and its stop: the
\* arguments are the second fragment.
C30_Witness ==
    /\ Len(frames) = 4
    /\ IsToolStart(frames[1]) /\ HasInitialInput(frames[1])
    /\ IsFragment(frames[2]) /\ IsFragment(frames[3])
    /\ frames[2].delta.partial_json # frames[3].delta.partial_json
    /\ frames[2].delta.partial_json # <<>>
    /\ IsToolStop(frames[4])
    /\ Last(canon).kind = "FunctionCallComplete"
    /\ Last(canon).call.arguments = frames[3].delta.partial_json

\* ------------------------------------------------------------------------
\* The Anthropic normalizer at content_block_stop and message_stop
\* ------------------------------------------------------------------------
IsAnyStop(f) == f.t = "event" /\ f.type = "content_block_stop"
IsAnyToolStart(f) ==
    f.t = "event" /\ f.type = "content_block_start" /\ f.content_block.type = "tool_use"
IsCompletion(e) == e.kind = "FunctionCallComplete"

\* The step of a content_block_stop frame: a FunctionCallComplete for the
\* entry of its index is emitted exactly when the in-progress map holds the
\* index, and the entry is removed.
StopStep ==
    (provider = "anthropic" /\ frames' # frames /\ IsAnyStop(Last(frames')))
        => LET index == Last(frames').index
               calls == anthropic_state.in_progress_calls
           IN  /\ index \in DOMAIN calls =>
                     canon' = Append(canon, FunctionCallComplete(
                                  FunctionCall(<<>>, calls[index].id, calls[index].name,
                                               calls[index].input_buffer)))
               /\ index \notin DOMAIN calls => canon' = canon
               /\ index \notin DOMAIN anthropic_state'.in_progress_calls
               /\ \A k \in DOMAIN calls \ {index} :
                     /\ k \in DOMAIN anthropic_state'.in_progress_calls
                     /\ anthropic_state'.in_progress_calls[k] = calls[k]

\* C31: a FunctionCallComplete is emitted at a content_block_stop exactly
\* when the in-progress map holds that index, and the entry is removed then;
\* so a second stop for the index, or the stop of a text block, emits
\* nothing, and the tool_use starts yield at most one completion each.
C31_CompletionAtStop ==
    /\ [][StopStep]_vars
    /\ [](provider = "anthropic" =>
            Len(SelectSeq(canon, IsCompletion)) <= Len(SelectSeq(frames, IsAnyToolStart)))

\* A tool_use block was started and stopped twice: one completion.
C31_Witness ==
    /\ provider = "anthropic"
    /\ Len(frames) = 3
    /\ IsAnyToolStart(frames[1])
    /\ IsAnyStop(frames[2]) /\ frames[2].index = frames[1].index
    /\ frames[3] = frames[2]
    /\ Len(SelectSeq(canon, IsCompletion)) = 1

\* ------------------------------------------------------------------------
\* The accumulator, event by event
\* ------------------------------------------------------------------------
\* process_event has just been handed the event `Last(seen')`.
Processed(kind) == seen' # seen /\ Last(seen').kind = kind

TailIsText(items) == items # <<>> /\ items[Len(items)].type = "Text"

\* C32: on ContentDelta, when the tail of the output list is a Text item the
\* delta is appended to it and the length is unchanged; when the list is
\* empty or its tail is a FunctionCall item a new Text item initialised with
\* the delta is pushed; no other item is modified.
ContentDeltaStep ==
    Processed("ContentDelta") =>
        LET items == accumulator.output_items
            delta == Last(seen').delta
        IN  /\ TailIsText(items) =>
                  /\ Len(accumulator'.output_items) = Len(items)
                  /\ accumulator'.output_items[Len(items)]
                         = TextItem(items[Len(items)].content \o delta)
                  /\ \A k \in 1..(Len(items) - 1) : accumulator'.output_items[k] = items[k]
            /\ ~TailIsText(items) =>
                  accumulator'.output_items = Append(items, TextItem(delta))
            /\ accumulator'.finish_reason = accumulator.finish_reason
            /\ accumulator'.usage = accumulator.usage

C32_ContentDeltaTransition == [][ContentDeltaStep]_vars

\* A delta appended to a Text tail that follows a FunctionCall item, itself
\* after a Text item made by a delta on the empty list.
C32_Witness ==
    /\ Len(seen) = 4
    /\ seen[1].kind = "ContentDelta"
    /\ seen[2].kind = "FunctionCallComplete"
    /\ seen[3].kind = "ContentDelta"
    /\ seen[4].kind = "ContentDelta"
    /\ Len(accumulator.output_items) = 3
    /\ accumulator.output_items[3] = TextItem(seen[3].delta \o seen[4].delta)

IsCallItem(item) == item.type = "FunctionCall"

\* C33: processing OutputItemAdded{FunctionCall} leaves the output list, the
\* finish_reason and the usage unchanged; a FunctionCall item appears only
\* when the FunctionCallComplete is processed, and it holds that call.
AnnouncementStep ==
    /\ (Processed("OutputItemAdded") /\ Last(seen').item.type = "FunctionCall")
          => accumulator' = accumulator
    /\ (SelectSeq(accumulator'.output_items, IsCallItem)
            # SelectSeq(accumulator.output_items, IsCallItem))
          => /\ Processed("FunctionCallComplete")
             /\ accumulator'.output_items
                    = Append(accumulator.output_items, FunctionCallItem(Last(seen').call))

C33_NoPlaceholder == [][AnnouncementStep]_vars

\* An announcement was processed after text and before its completion: the
\* output holds the text and then the one call.
C33_Witness ==
    /\ Len(seen) = 3
    /\ seen[1].kind = "ContentDelta"
    /\ seen[2].kind = "OutputItemAdded" /\ seen[2].item.type = "FunctionCall"
    /\ seen[3].kind = "FunctionCallComplete"
    /\ Len(accumulator.output_items) = 2
    /\ accumulator.output_items[2] = FunctionCallItem(seen[3].call)

\* C34: a StreamEvent::Error is a terminal failure of the accumulator:
\* process_event fails on it or makes finalize fail, so no CompleteResponse
\* comes out of an accumulator that was fed an Error event.
C34_ErrorIsTerminal ==
    (\E i \in 1..Len(seen) : seen[i].kind = "Error") => completed = <<>>

\* ------------------------------------------------------------------------
\* The SSE framer: blocks that set event, id or retry
\* ------------------------------------------------------------------------
\* The events that a sequence of decoded lines dispatches when every blank
\* line starts a fresh event: cur holds the fields of the lines since the
\* last blank line, read as process_line reads them.
RECURSIVE IsolatedEvents(_, _, _)
IsolatedEvents(ls, cur, acc) ==
    IF ls = <<>> THEN acc
    ELSE LET l == Head(ls) IN
         IF l = <<>>
         THEN IsolatedEvents(Tail(ls), SseEvent_default,
                             acc \o dispatch_event([current_event |-> cur,
                                                    events |-> <<>>]).events)
         ELSE IsolatedEvents(Tail(ls),
                             process_fields([current_event |-> cur, events |-> <<>>],
                                            l).current_event,
                             acc)

\* C35: the event type, id and retry of a dispatched event come from the
\* lines of its own block: an `event`, `id` or `retry` set in a block that
\* holds no data never appears in an event dispatched by a later block.
C35_EventIsolation ==
    Dispatched = IsolatedEvents(SelectValid(lines), SseEvent_default, <<>>)

\* C36: a stream in which every block is closed by a blank line ends with
\* end-of-stream and no error, also when some block set only event, id or
\* retry and held no data.
C36_CleanTermination ==
    (Finished /\ WellFormed(stream)) => (~HasError(out) /\ Last(out) = EndItem)

\* ------------------------------------------------------------------------
\* Anthropic tool calls back into an Anthropic request
\* ------------------------------------------------------------------------
\* The request encoder accepts the call: convert_request on a prompt that
\* holds it returns Ok.
EncoderAccepts(call) == anthropic_convert_request(<<InputFunctionCall(call)>>).status = "ok"

\* The text of the fragments is a whole JSON document, or is empty (the
\* tool_use carried its input, null or {}, at content_block_start).
WholeOrEmpty(fragments) == Flatten(fragments) \in {"", Flatten(ToolArgsText)}

\* C37: every FunctionCall the Anthropic normalizer emits has arguments that
\* the Anthropic request encoder accepts as JSON, also for a tool_use with
\* null or empty-object input followed by no input_json_delta or only by
\* empty fragments.
C37_ArgumentsAreJson ==
    \A i \in 1..Len(frames) :
        (/\ i < Len(frames)
         /\ IsToolStart(frames[i])
         /\ ~HasInitialInput(frames[i])
         /\ IsToolStop(frames[Len(frames)])
         /\ \A k \in (i + 1)..(Len(frames) - 1) : IsDeltaFrame(frames[k])
         /\ WholeOrEmpty(ConcatOwnFragments(frames, i + 1, Len(frames) - 1)))
            => /\ canon # <<>>
               /\ Last(canon).kind = "FunctionCallComplete"
               /\ EncoderAccepts(Last(canon).call)

\* ------------------------------------------------------------------------
\* Response::buffer and the first Done
\* ------------------------------------------------------------------------
\* The index of the first Done of a stream, 0 if it has none.
FirstDone(items) ==
    IF \E i \in 1..Len(items) : IsDone(items[i])
    THEN CHOOSE i \in 1..Len(items) : IsDone(items[i]) /\ \A j \in 1..(i - 1) : ~IsDone(items[j])
    ELSE 0

\* The stream up to and including its first Done; the whole stream if it
\* has none.
UpToFirstDone(items) == IF FirstDone(items) = 0 THEN items ELSE Take(items, FirstDone(items))

\* The accumulator after the events, handed to process_event one by one.
RECURSIVE Accumulated(_, _)
Accumulated(evs, acc) ==
    IF evs = <<>> THEN acc ELSE Accumulated(Tail(evs), process_event(acc, Head(evs)))

\* C38: buffer consumes the stream up to and including the first Done, so
\* its result is a function of that prefix: whatever follows the first Done
\* changes nothing.  When the stream ends with no Done and no error the result
\* is Ok with the items accumulated so far, Stop and zero usage.
C38_BufferStopsAtDone ==
    buffered.status # "none" =>
        /\ buffered = buffer_stream(UpToFirstDone(canon))
        /\ \A item \in StreamItems :
              buffered = buffer_stream(Append(UpToFirstDone(canon), item))
                 \/ FirstDone(canon) = 0
        /\ (FirstDone(canon) = 0 /\ \A i \in 1..Len(canon) : ~IsFailure(canon[i]))
              => /\ buffered.status = "ok"
                 /\ buffered.response.output
                        = Accumulated(canon, ResponseAccumulator_new).output_items
                 /\ buffered.response.finish_reason = "Stop"
                 /\ buffered.response.usage = Usage_default

\* buffer has returned Ok for a stream that yielded text, a Done, and after
\* it an Error event and a second Done.
C38_Witness ==
    /\ buffered.status = "ok"
    /\ Len(canon) = 4
    /\ canon[1].kind = "ContentDelta"
    /\ canon[2].kind = "Done"
    /\ canon[3].kind = "Error"
    /\ canon[4].kind = "Done"
    /\ buffered.response = finalize(Accumulated(Take(canon, 2), ResponseAccumulator_new))

\* C39: when the Anthropic normalizer emits Done at message_stop no tool
\* call is left in progress: every OutputItemAdded{FunctionCall} before the
\* Done is followed, before the Done, by the FunctionCallComplete of its
\* call, also when message_stop arrives before the content_block_stop or a
\* second tool_use starts on an index still in progress.
C39_NoCallInProgressAtDone ==
    provider = "anthropic" =>
        \A d \in 1..Len(canon) :
            IsDone(canon[d]) =>
                \A i \in 1..(d - 1) :
                    (canon[i].kind = "OutputItemAdded" /\ canon[i].item.type = "FunctionCall")
                        => \E j \in (i + 1)..(d - 1) :
                              /\ IsCompletion(canon[j])
                              /\ canon[j].call.call_id = canon[i].item.id
                              /\ canon[j].call.name = canon[i].item.name

====
